---------------------------- MODULE Spec2Model ----------------------------
(***************************************************************************)
(* ueventd (src/init/ueventd.cpp): the cold-boot pipeline ColdBoot::Run    *)
(* (regenerate -> fork N workers -> restorecon of /sys -> reap -> marker)  *)
(* followed by the steady-state poll loop of ueventd_main.                 *)
(*                                                                         *)
(* One run of the daemon is modelled from process start.  The parent is a  *)
(* sequential process whose position is pc; every forked worker is a       *)
(* process of its own that owns a copy of the parent's memory taken at     *)
(* fork(); the kernel is the environment (it emits uevents, fails system   *)
(* calls, kills workers).                                                  *)
(***************************************************************************)
EXTENDS Integers, Sequences, FiniteSets

(***************************************************************************)
(* Bounds of the model.                                                    *)
(***************************************************************************)
\* largest value std::thread::hardware_concurrency() returns in the model
MaxHardwareConcurrency == 2
\* number of uevents the kernel emits during one run of the daemon
MaxEvents == 2
\* number of workers of one cold boot that end abnormally
MaxWorkerDeaths == 1

(***************************************************************************)
(* Program constants.                                                      *)
(***************************************************************************)
\* the fallback of "hardware_concurrency() ?: 4"
DefaultSubprocesses == 4
\* the process number the log uses for the main (parent) process
Main == -1

\* The kinds of uevent the kernel sends: a DEVPATH and a SUBSYSTEM.
UeventKinds ==
    { [path |-> "/devices/a", subsystem |-> "tty"],
      [path |-> "/devices/b", subsystem |-> "firmware"] }

\* A parsed Uevent is a kind with an id, the identity of the datagram it was
\* parsed from.  NoUevent stands where a log entry carries no uevent.
NoUevent == [id |-> 0, path |-> "", subsystem |-> ""]

VARIABLES
    pc,                         \* where the main process is
    marker,                     \* the file COLDBOOT_DONE exists
    marker_at_start,            \* what access(COLDBOOT_DONE) found at start
    hardware_concurrency,       \* what std::thread::hardware_concurrency() returns
    num_handler_subprocesses_,  \* ColdBoot::num_handler_subprocesses_
    uevent_queue_,              \* ColdBoot::uevent_queue_ of the main process
    subprocess_pids_,           \* ColdBoot::subprocess_pids_
    skip_restorecon,            \* DeviceHandler::skip_restorecon_ of the main process
    fork_i,                     \* the loop variable i of ForkSubProcesses
    workers,                    \* the forked children, by process number, each
                                \* with its memory and the calls it has made
    restorecon,                 \* selinux_android_restorecon("/sys"): none/running/done
    open_result,                \* what open(COLDBOOT_DONE, O_CREAT) returned
    fatal,                      \* the message of the LOG(FATAL) that aborted the daemon
    regenerated,                \* the /sys traversal wrote "add" to the uevent files
    socket,                     \* datagrams in the netlink socket, not yet read
    emitted,                    \* number of uevents the kernel has sent
    log,                        \* calls made by the main process, in order
    fs_op,                      \* the function of fs_config.c that was called
    fs_in,                      \* its arguments and the files it reads
    fs_out                      \* what it returned and wrote

\* the state of a caller of libcutils' fs_config.c
fs_vars == << fs_op, fs_in, fs_out >>

\* the state of the uevent daemon
ueventd_vars == << pc, marker, marker_at_start, hardware_concurrency,
                   num_handler_subprocesses_, uevent_queue_, subprocess_pids_,
                   skip_restorecon, fork_i, workers, restorecon, open_result,
                   fatal, regenerated, socket, emitted, log >>

vars == << fs_vars, ueventd_vars >>

(***************************************************************************)
(* Pure parts of the code.                                                 *)
(***************************************************************************)
Max(a, b) == IF a >= b THEN a ELSE b

\* variant: the fallback taken as a lower bound
NumHandlerSubprocessesAsMax(hc) == Max(hc, DefaultSubprocesses)

\* ColdBoot::ColdBoot: std::thread::hardware_concurrency() ?: 4
NumHandlerSubprocesses(hc) == IF hc # 0 THEN hc ELSE DefaultSubprocesses

\* variant: the test of access() inverted
ColdBootNeededInverted(exists) == exists

\* ueventd_main: access(COLDBOOT_DONE, F_OK) != 0
ColdBootNeeded(exists) == ~exists

\* CreateDeviceHandler: the last argument of DeviceHandler(...), skip_restorecon
InitialSkipRestorecon == TRUE

\* variant: every worker starts at the head of the queue
FirstIndexZero(process_num) == 0

\* UeventHandlerMain: the initial value of the loop index, i = process_num
FirstIndex(process_num) == process_num

\* variant: a stride of one, every worker walks the whole tail
NextIndexByOne(i, total_processes) == i + 1

\* UeventHandlerMain: i += total_processes.  i is an unsigned int and the
\* queue holds at most MaxEvents uevents here, far from where i would wrap.
NextIndex(i, total_processes) == i + total_processes

\* fork(): the pid the child of process number i gets; pids are distinct
ForkPid(i) == i + 1

\* variant: the children not waited for at all
WaitLoopDoneAlways(pids) == TRUE

\* variant: the loop is never left
WaitLoopDoneNever(pids) == FALSE

\* variant: the loop left as soon as one worker was reaped
WaitLoopDoneAny(pids) == pids = {} \/ \E w \in DOMAIN workers : workers[w].state = "reaped"

\* WaitForSubProcesses: the loop condition, negated: subprocess_pids_.empty()
WaitLoopDone(pids) == pids = {}

\* variant: only a non-zero exit status is fatal, a signal is accepted
ReapOutcomeSignalAccepted(status) ==
    IF status = "exit_nonzero" THEN "subprocess exited with status" ELSE "erase"

\* a pid that fork() gave to no worker
ForeignPid == ForkPid(DefaultSubprocesses + MaxHardwareConcurrency)

\* WaitForSubProcesses: pid == -1
WaitpidFailed(pid) == pid = -1

\* variant: every pid waitpid returns is taken for a worker's
PidFoundAlways(pid, pids) == TRUE

\* WaitForSubProcesses: std::find(...) != subprocess_pids_.end()
PidFound(pid, pids) == pid \in pids

\* WaitForSubProcesses: what is done with the status of a reaped worker:
\* WIFEXITED && WEXITSTATUS == EXIT_SUCCESS erases the pid, the rest is FATAL
ReapOutcome(status) ==
    CASE status = "exit_success" -> "erase"
      [] status = "exit_nonzero" -> "subprocess exited with status"
      [] status = "signaled"     -> "subprocess killed by signal"

\* variant: the failure of fork() logged and the loop continued
PcAfterForkFailureContinue == "fork"

\* ForkSubProcesses: pid < 0 is PLOG(FATAL), which aborts the process
PcAfterForkFailure == "aborted"

\* variant: the descriptor checked, a failed open fatal
PcAfterMarkChecked(fd_ok) == IF fd_ok THEN "poll" ELSE "aborted"

\* ColdBoot::Run: close(open(...)) ignores what open returned; Run returns
\* to ueventd_main, which calls Poll
PcAfterMark(fd_ok) == "poll"

(***************************************************************************)
(* The state after construction: the process has started, the device       *)
(* handler is created, nothing has been read.                              *)
(***************************************************************************)
\* no function of fs_config.c is being called
FsIdle ==
    /\ fs_op = "idle"
    /\ fs_in = << >>
    /\ fs_out = << >>

Init ==
    /\ FsIdle
    /\ pc = "start"
    /\ marker \in BOOLEAN
    /\ marker_at_start = marker
    /\ hardware_concurrency \in 0..MaxHardwareConcurrency
    /\ num_handler_subprocesses_ = 0
    /\ uevent_queue_ = << >>
    /\ subprocess_pids_ = {}
    /\ skip_restorecon = InitialSkipRestorecon
    /\ fork_i = 0
    /\ workers = << >>
    /\ restorecon = "none"
    /\ open_result = "none"
    /\ fatal = ""
    /\ regenerated = FALSE
    /\ socket = << >>
    /\ emitted = 0
    /\ log = << >>

FirmwareCall(uevent) ==
    [op |-> "HandleFirmwareEvent", proc |-> Main, uevent |-> uevent, skip |-> FALSE]

\* variant: the callback handles the firmware side only
DeviceCallMissing(proc, uevent, skip) == FirmwareCall(uevent)

DeviceCall(proc, uevent, skip) ==
    [op |-> "HandleDeviceEvent", proc |-> proc, uevent |-> uevent, skip |-> skip]

RestoreconReturn ==
    [op |-> "restorecon", proc |-> Main, uevent |-> NoUevent, skip |-> FALSE]

\* uevent_queue_.emplace_back(uevent)
QueueCall(uevent) ==
    [op |-> "emplace_back", proc |-> Main, uevent |-> uevent, skip |-> FALSE]

\* variant: the uevent is queued before the firmware handler sees it
RegenerateCallsQueueFirst(uevent) == << QueueCall(uevent), FirmwareCall(uevent) >>

\* the calls of the regeneration callback on one uevent, in order
RegenerateCalls(uevent) == << FirmwareCall(uevent), QueueCall(uevent) >>

\* variant: the callback asks the listener to stop
RegenerateReturnStop == "kStop"

\* what the regeneration callback returns to the listener
RegenerateReturn == "kContinue"

\* variant: the callback asks the listener to stop
PollReturnStop == "kStop"

\* what the Poll callback returns to the listener
PollReturn == "kContinue"

(***************************************************************************)
(* The kernel sends a uevent to the netlink socket of the daemon.          *)
(***************************************************************************)
KernelEmit ==
    /\ pc # "aborted"
    /\ emitted < MaxEvents
    /\ \E k \in UeventKinds :
         socket' = Append(socket, [id |-> emitted + 1, path |-> k.path,
                                   subsystem |-> k.subsystem])
    /\ emitted' = emitted + 1
    /\ UNCHANGED << fs_vars, pc, marker, marker_at_start, hardware_concurrency,
                    num_handler_subprocesses_, uevent_queue_, subprocess_pids_,
                    skip_restorecon, fork_i, workers, restorecon, open_result,
                    fatal, regenerated, log >>

(***************************************************************************)
(* ueventd_main up to the choice between cold boot and Poll; with cold     *)
(* boot, the ColdBoot constructor and the /sys traversal that starts       *)
(* UeventListener::RegenerateUevents.                                      *)
(***************************************************************************)
Start ==
    /\ pc = "start"
    /\ IF ColdBootNeeded(marker)
       THEN /\ pc' = "regen"
            /\ num_handler_subprocesses_' = NumHandlerSubprocesses(hardware_concurrency)
            /\ regenerated' = TRUE
       ELSE /\ pc' = "poll"
            /\ UNCHANGED << num_handler_subprocesses_, regenerated >>
    /\ UNCHANGED << fs_vars, marker, marker_at_start, hardware_concurrency, uevent_queue_,
                    subprocess_pids_, skip_restorecon, fork_i, workers,
                    restorecon, open_result, fatal, socket, emitted, log >>

(***************************************************************************)
(* ColdBoot::RegenerateUevents: the callback on one uevent read from the   *)
(* socket, and the return when the socket is drained.  The listener reads  *)
(* on while the callback returns kContinue.                                *)
(***************************************************************************)
RegenerateCallback ==
    /\ pc = "regen"
    /\ socket # << >>
    /\ log' = log \o RegenerateCalls(Head(socket))
    /\ uevent_queue_' = Append(uevent_queue_, Head(socket))
    /\ socket' = Tail(socket)
    /\ pc' = IF RegenerateReturn = "kContinue" THEN "regen" ELSE "fork"
    /\ UNCHANGED << fs_vars, marker, marker_at_start, hardware_concurrency,
                    num_handler_subprocesses_, subprocess_pids_, skip_restorecon,
                    fork_i, workers, restorecon, open_result, fatal,
                    regenerated, emitted >>

RegenerateDrained ==
    /\ pc = "regen"
    /\ socket = << >>
    /\ pc' = "fork"
    /\ fork_i' = 0
    /\ UNCHANGED << fs_vars, marker, marker_at_start, hardware_concurrency,
                    num_handler_subprocesses_, uevent_queue_, subprocess_pids_,
                    skip_restorecon, workers, restorecon, open_result, fatal,
                    regenerated, socket, emitted, log >>

(***************************************************************************)
(* ColdBoot::ForkSubProcesses: one iteration of the loop.  The child is a  *)
(* copy of the parent: its queue, its device handler, its process number.  *)
(***************************************************************************)
\* variant: the loop forks one child
ForkLoopContinuesOnce(i, n) == i < 1

\* the condition of the loop: i < num_handler_subprocesses_
ForkLoopContinues(i, n) == i < n

\* variant: the child has the queue without its last uevent
NewWorkerStaleQueue(process_num) ==
    [pid             |-> ForkPid(process_num),
     state           |-> "running",
     status          |-> "none",
     died            |-> FALSE,
     i               |-> FirstIndex(process_num),
     total_processes |-> num_handler_subprocesses_,
     uevent_queue_   |-> SubSeq(uevent_queue_, 1, Len(uevent_queue_) - 1),
     skip_restorecon |-> skip_restorecon,
     calls           |-> << >>]

\* died: the child was ended from outside UeventHandlerMain
NewWorker(process_num) ==
    [pid             |-> ForkPid(process_num),
     state           |-> "running",
     status          |-> "none",
     died            |-> FALSE,
     i               |-> FirstIndex(process_num),
     total_processes |-> num_handler_subprocesses_,
     uevent_queue_   |-> uevent_queue_,
     skip_restorecon |-> skip_restorecon,
     calls           |-> << >>]

ForkChild ==
    /\ pc = "fork"
    /\ ForkLoopContinues(fork_i, num_handler_subprocesses_)
    /\ workers' = [w \in (DOMAIN workers) \cup {fork_i} |->
                     IF w = fork_i THEN NewWorker(fork_i) ELSE workers[w]]
    /\ subprocess_pids_' = subprocess_pids_ \cup {ForkPid(fork_i)}
    /\ fork_i' = fork_i + 1
    /\ UNCHANGED << fs_vars, pc, marker, marker_at_start, hardware_concurrency,
                    num_handler_subprocesses_, uevent_queue_, skip_restorecon,
                    restorecon, open_result, fatal, regenerated, socket,
                    emitted, log >>

ForkFails ==
    /\ pc = "fork"
    /\ ForkLoopContinues(fork_i, num_handler_subprocesses_)
    /\ pc' = PcAfterForkFailure
    /\ fatal' = "fork() failed!"
    /\ fork_i' = IF PcAfterForkFailure = "aborted" THEN fork_i ELSE fork_i + 1
    /\ UNCHANGED << fs_vars, marker, marker_at_start, hardware_concurrency,
                    num_handler_subprocesses_, uevent_queue_, subprocess_pids_,
                    skip_restorecon, workers, restorecon, open_result,
                    regenerated, socket, emitted, log >>

(***************************************************************************)
(* ColdBoot::DoRestoreCon: the call of selinux_android_restorecon, and its *)
(* return followed by set_skip_restorecon(false).                          *)
(***************************************************************************)
RestoreConCall ==
    /\ pc = "fork"
    /\ ~ForkLoopContinues(fork_i, num_handler_subprocesses_)
    /\ pc' = "restorecon"
    /\ restorecon' = "running"
    /\ UNCHANGED << fs_vars, marker, marker_at_start, hardware_concurrency,
                    num_handler_subprocesses_, uevent_queue_, subprocess_pids_,
                    skip_restorecon, fork_i, workers, open_result, fatal,
                    regenerated, socket, emitted, log >>

RestoreConReturns ==
    /\ pc = "restorecon"
    /\ restorecon' = "done"
    /\ log' = Append(log, RestoreconReturn)
    /\ skip_restorecon' = FALSE
    /\ pc' = "wait"
    /\ UNCHANGED << fs_vars, marker, marker_at_start, hardware_concurrency,
                    num_handler_subprocesses_, uevent_queue_, subprocess_pids_,
                    fork_i, workers, open_result, fatal, regenerated, socket,
                    emitted >>

(***************************************************************************)
(* ColdBoot::UeventHandlerMain in the child of process number w: one       *)
(* iteration of the loop, and _exit(EXIT_SUCCESS) after it.  The child     *)
(* reads its own copy of the queue and of the device handler.              *)
(***************************************************************************)
\* HandleDeviceEvent returns nothing; what fails inside it (mknod, chown,
\* symlink...) it logs itself.  The node of this device is the one that
\* cannot be made.
HandlerFails(uevent) == uevent.path = "/devices/a"

\* variant: the child exits with 1 when a call of the handler failed
WorkerExitStatusFromCalls(calls) ==
    IF \E k \in 1..Len(calls) : calls[k].failed THEN "exit_nonzero" ELSE "exit_success"

\* _exit(EXIT_SUCCESS)
WorkerExitStatus(calls) == "exit_success"

\* variant: threads instead of processes, the flag shared with the parent
WorkerSkipRestoreconShared(w) == skip_restorecon

\* device_handler_ in the child: the copy made by fork()
WorkerSkipRestorecon(w) == workers[w].skip_restorecon

\* One call device_handler_.HandleDeviceEvent(uevent) of the child w, as the
\* child's list of calls keeps it; parent_skip is what the flag of the
\* parent's handler was at that moment (the child cannot read it).
WorkerCall(w, uevent) ==
    [uevent |-> uevent, skip |-> WorkerSkipRestorecon(w), parent_skip |-> skip_restorecon,
     failed |-> HandlerFails(uevent)]

\* variant: the queue indexed from its end
EventAtFromEnd(queue, i) == queue[Len(queue) - i]

\* uevent_queue_[i]: C++ indices start at 0, sequences at 1
EventAt(queue, i) == queue[i + 1]

WorkerHandle(w) ==
    /\ workers[w].state = "running"
    /\ workers[w].i < Len(workers[w].uevent_queue_)
    /\ workers' = [workers EXCEPT
                     ![w].calls = Append(@, WorkerCall(w, EventAt(workers[w].uevent_queue_, workers[w].i))),
                     ![w].i = NextIndex(workers[w].i, workers[w].total_processes)]
    /\ UNCHANGED << fs_vars, pc, marker, marker_at_start, hardware_concurrency,
                    num_handler_subprocesses_, uevent_queue_, subprocess_pids_,
                    skip_restorecon, fork_i, restorecon, open_result, fatal,
                    regenerated, socket, emitted, log >>

\* variant: UeventHandlerMain returns to its caller, the child goes on in the
\* fork loop of ForkSubProcesses and forks a child of its own
ChildReturnsFromHandlerMain(w) ==
    [v \in (DOMAIN workers) \cup {num_handler_subprocesses_ + w} |->
        IF v = num_handler_subprocesses_ + w THEN NewWorker(v)
        ELSE IF v = w THEN [workers[w] EXCEPT !.state = "ForkSubProcesses"]
        ELSE workers[v]]

\* UeventHandlerMain ends in _exit(EXIT_SUCCESS): the child never returns to
\* ForkSubProcesses, it is a zombie until the parent reaps it
ChildLeavesHandlerMain(w) ==
    [workers EXCEPT ![w].state = "zombie",
                    ![w].status = WorkerExitStatus(workers[w].calls)]

WorkerExit(w) ==
    /\ workers[w].state = "running"
    /\ ~(workers[w].i < Len(workers[w].uevent_queue_))
    /\ workers' = ChildLeavesHandlerMain(w)
    /\ UNCHANGED << fs_vars, pc, marker, marker_at_start, hardware_concurrency,
                    num_handler_subprocesses_, uevent_queue_, subprocess_pids_,
                    skip_restorecon, fork_i, restorecon, open_result, fatal,
                    regenerated, socket, emitted, log >>

(***************************************************************************)
(* A worker ends in another way than by the _exit of UeventHandlerMain: it *)
(* is killed by a signal (a crash in the handler, an abort) or the handler *)
(* exits with a non-zero status.                                           *)
(***************************************************************************)
AbnormalStatus == {"exit_nonzero", "signaled"}

WorkerDies(w) ==
    /\ workers[w].state = "running"
    /\ Cardinality({v \in DOMAIN workers : workers[v].status \in AbnormalStatus})
         < MaxWorkerDeaths
    /\ \E st \in AbnormalStatus :
         workers' = [workers EXCEPT ![w].state = "zombie", ![w].status = st,
                                    ![w].died = TRUE]
    /\ UNCHANGED << fs_vars, pc, marker, marker_at_start, hardware_concurrency,
                    num_handler_subprocesses_, uevent_queue_, subprocess_pids_,
                    skip_restorecon, fork_i, restorecon, open_result, fatal,
                    regenerated, socket, emitted, log >>

(***************************************************************************)
(* ColdBoot::WaitForSubProcesses: one iteration of the loop, waitpid       *)
(* returning the terminated child w, and the exit of the loop.             *)
(***************************************************************************)
\* one turn of the loop with what waitpid returned; pid and status are
\* locals of the turn
WaitIteration(pid, status) ==
    IF WaitpidFailed(pid) \/ ~PidFound(pid, subprocess_pids_)
    THEN UNCHANGED << pc, subprocess_pids_, fatal >>
    ELSE IF ReapOutcome(status) = "erase"
         THEN /\ subprocess_pids_' = subprocess_pids_ \ {pid}
              /\ UNCHANGED << pc, fatal >>
         ELSE /\ pc' = "aborted"
              /\ fatal' = ReapOutcome(status)
              /\ UNCHANGED subprocess_pids_

\* waitpid returns the terminated worker w
WaitReap(w) ==
    /\ pc = "wait"
    /\ ~WaitLoopDone(subprocess_pids_)
    /\ workers[w].state = "zombie"
    /\ workers' = [workers EXCEPT ![w].state = "reaped"]
    /\ WaitIteration(workers[w].pid, workers[w].status)
    /\ UNCHANGED << fs_vars, marker, marker_at_start, hardware_concurrency,
                    num_handler_subprocesses_, uevent_queue_, skip_restorecon,
                    fork_i, restorecon, open_result, regenerated, socket,
                    emitted, log >>

\* waitpid returns a terminated child that ForkSubProcesses did not fork: one
\* that HandleFirmwareEvent started for a firmware uevent
WaitForeign ==
    /\ pc = "wait"
    /\ ~WaitLoopDone(subprocess_pids_)
    /\ \E k \in 1..Len(log) :
          log[k].op = "HandleFirmwareEvent" /\ log[k].uevent.subsystem = "firmware"
    /\ \E status \in {"exit_success"} \cup AbnormalStatus :
          WaitIteration(ForeignPid, status)
    /\ UNCHANGED << fs_vars, marker, marker_at_start, hardware_concurrency,
                    num_handler_subprocesses_, uevent_queue_, skip_restorecon,
                    fork_i, workers, restorecon, open_result, regenerated, socket,
                    emitted, log >>

\* waitpid fails with another error than EINTR; status is not written
WaitpidFails ==
    /\ pc = "wait"
    /\ ~WaitLoopDone(subprocess_pids_)
    /\ WaitIteration(-1, "unset")
    /\ UNCHANGED << fs_vars, marker, marker_at_start, hardware_concurrency,
                    num_handler_subprocesses_, uevent_queue_, skip_restorecon,
                    fork_i, workers, restorecon, open_result, regenerated, socket,
                    emitted, log >>

WaitDone ==
    /\ pc = "wait"
    /\ WaitLoopDone(subprocess_pids_)
    /\ pc' = "mark"
    /\ UNCHANGED << fs_vars, marker, marker_at_start, hardware_concurrency,
                    num_handler_subprocesses_, uevent_queue_, subprocess_pids_,
                    skip_restorecon, fork_i, workers, restorecon, open_result,
                    fatal, regenerated, socket, emitted, log >>

(***************************************************************************)
(* ColdBoot::Run, its last statements: close(open(COLDBOOT_DONE, O_CREAT)) *)
(* with open succeeding or failing, then the return to ueventd_main.       *)
(***************************************************************************)
MarkDone ==
    /\ pc = "mark"
    /\ \E fd_ok \in BOOLEAN :
         /\ marker' = (marker \/ fd_ok)
         /\ open_result' = IF fd_ok THEN "ok" ELSE "failed"
         /\ pc' = PcAfterMark(fd_ok)
    /\ UNCHANGED << fs_vars, marker_at_start, hardware_concurrency,
                    num_handler_subprocesses_, uevent_queue_, subprocess_pids_,
                    skip_restorecon, fork_i, workers, restorecon, fatal,
                    regenerated, socket, emitted, log >>

(***************************************************************************)
(* ueventd_main: the callback of uevent_listener.Poll on one uevent.       *)
(***************************************************************************)
PollCallback ==
    /\ pc = "poll"
    /\ socket # << >>
    /\ log' = log \o << FirmwareCall(Head(socket)),
                        DeviceCall(Main, Head(socket), skip_restorecon) >>
    /\ socket' = Tail(socket)
    /\ pc' = IF PollReturn = "kContinue" THEN "poll" ELSE "returned"
    /\ UNCHANGED << fs_vars, marker, marker_at_start, hardware_concurrency,
                    num_handler_subprocesses_, uevent_queue_, subprocess_pids_,
                    skip_restorecon, fork_i, workers, restorecon, open_result,
                    fatal, regenerated, emitted >>

Next ==
    \/ KernelEmit
    \/ Start
    \/ RegenerateCallback
    \/ RegenerateDrained
    \/ ForkChild
    \/ ForkFails
    \/ RestoreConCall
    \/ RestoreConReturns
    \/ \E w \in DOMAIN workers : WorkerHandle(w)
    \/ \E w \in DOMAIN workers : WorkerExit(w)
    \/ \E w \in DOMAIN workers : WorkerDies(w)
    \/ \E w \in DOMAIN workers : WaitReap(w)
    \/ WaitForeign
    \/ WaitpidFails
    \/ WaitDone
    \/ MarkDone
    \/ PollCallback

Spec == Init /\ [][Next]_vars

\* Poll never returns: whenever a datagram is in the socket the main process,
\* once in the poll loop, reads it and runs the callback.
FairSpec == Spec /\ WF_vars(PollCallback)

\* a step of the main process in ColdBoot::Run that does not depend on what
\* the environment returns: it is not a failed fork or a waitpid that returns
\* no worker
ParentStep ==
    \/ Start
    \/ RegenerateCallback
    \/ RegenerateDrained
    \/ ForkChild
    \/ RestoreConCall
    \/ RestoreConReturns
    \/ \E w \in DOMAIN workers : WaitReap(w)
    \/ WaitDone
    \/ MarkDone

\* a step of worker w in UeventHandlerMain
WorkerStep(w) == w \in DOMAIN workers /\ (WorkerHandle(w) \/ WorkerExit(w))

\* the process numbers a worker can have
WorkerNumbers == 0..(Max(MaxHardwareConcurrency, DefaultSubprocesses) - 1)

\* the scheduler is fair to the main process and to every worker
ColdBootFairSpec ==
    /\ Spec
    /\ WF_vars(ParentStep)
    /\ \A w \in WorkerNumbers : WF_vars(WorkerStep(w))


(***************************************************************************)
(* Derived views of the state, used to state the properties.               *)
(***************************************************************************)
\* the loop of ForkSubProcesses has been left without a failure
ForkLoopDone == restorecon # "none"

\* every worker of the cold boot was forked and has ended by its own _exit
AllWorkersExited ==
    /\ ForkLoopDone
    /\ \A w \in DOMAIN workers : workers[w].status = "exit_success"

\* every worker of the cold boot was forked and reaped with exit status 0
AllWorkersReapedOk ==
    /\ num_handler_subprocesses_ >= 1
    /\ DOMAIN workers = 0..(num_handler_subprocesses_ - 1)
    /\ \A w \in DOMAIN workers :
         workers[w].state = "reaped" /\ workers[w].status = "exit_success"

\* the calls of HandleDeviceEvent made by workers: who, and what
WorkerCalls ==
    UNION { { [proc |-> w, call |-> workers[w].calls[k]] :
                k \in 1..Len(workers[w].calls) } : w \in DOMAIN workers }

\* the calls of HandleDeviceEvent made by the main process
MainDeviceCalls ==
    { log[k] : k \in { j \in 1..Len(log) : log[j].op = "HandleDeviceEvent" } }

\* the place (from 0) of a queued uevent in the queue of the main process
QueueIndex(uevent) ==
    CHOOSE i \in 0..(Len(uevent_queue_) - 1) : uevent_queue_[i + 1] = uevent

\* the queue indices the loop of UeventHandlerMain visits from index i on
RECURSIVE Visited(_, _, _)
Visited(i, total_processes, size) ==
    IF i < size
    THEN {i} \cup Visited(NextIndex(i, total_processes), total_processes, size)
    ELSE {}

\* the share of worker process_num: the indices its loop visits
Share(process_num, total_processes, size) ==
    Visited(FirstIndex(process_num), total_processes, size)

\* how many calls of HandleDeviceEvent the workers made on a uevent
TimesHandledByWorkers(uevent) ==
    Cardinality({ wk \in { <<w, k>> : w \in DOMAIN workers, k \in 1..(MaxEvents + 1) } :
                    /\ wk[2] <= Len(workers[wk[1]].calls)
                    /\ workers[wk[1]].calls[wk[2]].uevent = uevent })

(***************************************************************************)
(* C1.  In a run that starts with the marker absent, the marker is created *)
(* at most once (it goes from absent to present in the marking step only,  *)
(* and is never removed), and whenever it exists all N workers have been   *)
(* reaped with exit status 0 and the restorecon of /sys has returned: it   *)
(* never exists while a worker runs or restorecon is in progress.          *)
(***************************************************************************)
C1_MarkerAfterReapAndRestorecon ==
    /\ []((~marker_at_start /\ marker) =>
            (restorecon = "done" /\ AllWorkersReapedOk))
    /\ [][(~marker /\ marker') =>
            (pc = "mark" /\ restorecon = "done" /\ AllWorkersReapedOk)]_vars
    /\ [][marker => marker']_vars

C1_Witness ==
    /\ ~marker_at_start /\ marker
    /\ Cardinality(DOMAIN workers) >= 2
    /\ Len(uevent_queue_) >= 1

(***************************************************************************)
(* C2.  Partition safety: for the worker count N >= 1 and the queue of     *)
(* every reachable state, the shares of workers 0..N-1 are pairwise        *)
(* disjoint and cover exactly the queue; once all workers have exited, any *)
(* queued uevent has been passed to the device handler exactly once, by a  *)
(* worker, and never by the main process.                                  *)
(***************************************************************************)
C2_PartitionSafety ==
    LET n    == num_handler_subprocesses_
        size == Len(uevent_queue_)
    IN  /\ n >= 1 =>
             /\ \A v, w \in 0..(n - 1) :
                  v # w => Share(v, n, size) \cap Share(w, n, size) = {}
             /\ UNION { Share(w, n, size) : w \in 0..(n - 1) } = 0..(size - 1)
        /\ AllWorkersExited =>
             /\ \A i \in 1..size : TimesHandledByWorkers(uevent_queue_[i]) = 1
             /\ \A c \in MainDeviceCalls :
                  \A i \in 1..size : c.uevent # uevent_queue_[i]

C2_Witness ==
    /\ AllWorkersExited
    /\ Len(uevent_queue_) >= 2
    /\ num_handler_subprocesses_ >= 2

(***************************************************************************)
(* C3, as claimed: any two queued uevents that carry the same DEVPATH are  *)
(* handled by the same worker.                                             *)
(***************************************************************************)
C3_SameDevpathSameWorker ==
    \A c, d \in WorkerCalls :
        c.call.uevent.path = d.call.uevent.path => c.proc = d.proc

(***************************************************************************)
(* C3, amended: two queued uevents are handled by the same worker exactly  *)
(* when their queue indices are congruent modulo N, whatever DEVPATH they  *)
(* carry.                                                                  *)
(***************************************************************************)
C3_SameWorkerIffSameResidue ==
    \A c, d \in WorkerCalls :
        (c.proc = d.proc) <=>
            (QueueIndex(c.call.uevent) % num_handler_subprocesses_
               = QueueIndex(d.call.uevent) % num_handler_subprocesses_)

C3_Witness ==
    \E c, d \in WorkerCalls :
        /\ c.call.uevent.path = d.call.uevent.path
        /\ c.call.uevent # d.call.uevent
        /\ c.proc # d.proc

(***************************************************************************)
(* C4.  Whenever the steady-state loop passes a uevent to the device       *)
(* handler, skip_restorecon is false, on a start after a cold boot and on  *)
(* a start that finds the marker present.                                  *)
(***************************************************************************)
C4_SteadyStateRestorecon ==
    \A c \in MainDeviceCalls : c.skip = FALSE

(***************************************************************************)
(* C5.  If a worker ended with a non-zero exit status or by a signal, the  *)
(* marker is never created and the poll loop is never entered in that run, *)
(* whatever the other workers did and in whatever order they were reaped;  *)
(* once that worker is reaped the daemon has aborted.                      *)
(***************************************************************************)
C5_WorkerFailureIsFatal ==
    \A w \in DOMAIN workers :
        workers[w].status \in AbnormalStatus =>
            /\ pc \notin {"mark", "poll"}
            /\ ~marker
            /\ open_result = "none"
            /\ MainDeviceCalls = {}
            /\ workers[w].state = "reaped" => (pc = "aborted" /\ fatal # "")

C5_Witness ==
    /\ pc = "aborted"
    /\ \E w \in DOMAIN workers :
         workers[w].status \in AbnormalStatus /\ workers[w].state = "reaped"
    /\ \E w \in DOMAIN workers :
         workers[w].status = "exit_success" /\ workers[w].state = "reaped"

(***************************************************************************)
(* C6, as claimed: when open(COLDBOOT_DONE, O_CREAT) fails the process     *)
(* aborts and does not enter the poll loop.                                *)
(***************************************************************************)
C6_MarkerFailureIsFatal ==
    open_result = "failed" => (pc = "aborted" /\ MainDeviceCalls = {})

(***************************************************************************)
(* C6, amended: a failure of open(COLDBOOT_DONE, O_CREAT) is ignored: the  *)
(* process does not abort and enters the poll loop, the marker absent.     *)
(***************************************************************************)
C6_MarkerFailureIgnored ==
    open_result = "failed" => (pc = "poll" /\ fatal = "" /\ ~marker)

C6_Witness ==
    /\ open_result = "failed"
    /\ MainDeviceCalls # {}

(***************************************************************************)
(* C7.  If a fork() of the fan-out fails the daemon aborts there: it       *)
(* starts no restorecon of /sys, does not create the marker and does not   *)
(* enter the poll loop.                                                    *)
(***************************************************************************)
C7_ForkFailureIsFatal ==
    fatal = "fork() failed!" =>
        /\ pc = "aborted"
        /\ restorecon = "none"
        /\ ~marker
        /\ open_result = "none"
        /\ MainDeviceCalls = {}
        /\ Cardinality(DOMAIN workers) < num_handler_subprocesses_

C7_Witness ==
    /\ fatal = "fork() failed!"
    /\ Cardinality(DOMAIN workers) >= 1

(***************************************************************************)
(* C8, as claimed: cold boot runs if and only if the marker is absent at   *)
(* start; with the marker present nothing of the pipeline happens and the  *)
(* marker is not touched; with the marker absent, the marker exists when   *)
(* the poll loop is entered.                                               *)
(***************************************************************************)
ColdBootIffMarkerAbsent ==
    /\ pc # "start" => (regenerated <=> ~marker_at_start)
    /\ marker_at_start =>
         /\ pc \in {"start", "poll"}
         /\ ~regenerated
         /\ uevent_queue_ = << >>
         /\ workers = << >>
         /\ subprocess_pids_ = {}
         /\ restorecon = "none"
         /\ open_result = "none"
         /\ marker

C8_MarkerExistsInPoll ==
    /\ ColdBootIffMarkerAbsent
    /\ (~marker_at_start /\ pc = "poll") => marker

(***************************************************************************)
(* C8, amended: as claimed, except that with the marker absent at start    *)
(* open(COLDBOOT_DONE, O_CREAT) has been called when the poll loop is      *)
(* entered, and the marker exists then if and only if that open succeeded. *)
(***************************************************************************)
C8_MarkerAttemptedBeforePoll ==
    /\ ColdBootIffMarkerAbsent
    /\ (~marker_at_start /\ pc = "poll") =>
         (open_result # "none" /\ (marker <=> open_result = "ok"))

C8_Witness ==
    /\ marker_at_start
    /\ pc = "poll"
    /\ MainDeviceCalls # {}

(***************************************************************************)
(* C9, as claimed: the number of workers forked is max(concurrency, 4).    *)
(***************************************************************************)
C9_WorkersMaxOfConcurrencyAndFour ==
    ForkLoopDone =>
        Cardinality(DOMAIN workers) = Max(hardware_concurrency, DefaultSubprocesses)

(***************************************************************************)
(* C9, amended: the number of workers forked is the hardware concurrency   *)
(* when that is not 0, and 4 when it is 0.                                 *)
(***************************************************************************)
C9_WorkersConcurrencyOrFour ==
    ForkLoopDone =>
        /\ Cardinality(DOMAIN workers) =
             (IF hardware_concurrency = 0 THEN DefaultSubprocesses
                                          ELSE hardware_concurrency)
        /\ Cardinality({ workers[w].pid : w \in DOMAIN workers }) =
             Cardinality(DOMAIN workers)

C9_Witness ==
    /\ ForkLoopDone
    /\ hardware_concurrency \in 1..(DefaultSubprocesses - 1)
    /\ Cardinality(DOMAIN workers) = hardware_concurrency

(***************************************************************************)
(* C10.  Every call of the device handler made by a cold-boot worker runs  *)
(* with skip_restorecon = true, also when the main process has already     *)
(* set its own flag to false.                                              *)
(***************************************************************************)
C10_WorkersSkipRestorecon ==
    \A c \in WorkerCalls : c.call.skip = TRUE

C10_Witness ==
    \E c \in WorkerCalls : c.call.parent_skip = FALSE


(***************************************************************************)
(* C11.  Within one worker the events of its share are handled in enqueue  *)
(* order: the queue indices of its successive calls of the device handler  *)
(* increase strictly.                                                      *)
(***************************************************************************)
C11_WorkerHandlesInQueueOrder ==
    \A w \in DOMAIN workers :
        \A j, k \in 1..Len(workers[w].calls) :
            j < k => QueueIndex(workers[w].calls[j].uevent)
                       < QueueIndex(workers[w].calls[k].uevent)

C11_Witness ==
    \E w \in DOMAIN workers : Len(workers[w].calls) >= 2

(***************************************************************************)
(* C12.  When the poll loop is entered after a cold boot no worker of that *)
(* cold boot is alive: the set of outstanding pids is empty and every      *)
(* worker has been reaped; and before the poll loop the main process has   *)
(* not called the device handler on any uevent.                            *)
(***************************************************************************)
C12_SteadyStateIsSingleProcess ==
    /\ (~marker_at_start /\ pc = "poll") =>
         /\ subprocess_pids_ = {}
         /\ DOMAIN workers # {}
         /\ \A w \in DOMAIN workers : workers[w].state = "reaped"
    /\ pc # "poll" => MainDeviceCalls = {}

C12_Witness ==
    /\ ~marker_at_start
    /\ pc = "poll"
    /\ MainDeviceCalls # {}
    /\ \E w \in DOMAIN workers : workers[w].calls # << >>

(***************************************************************************)
(* Views for C13.                                                          *)
(***************************************************************************)
\* the phases of ColdBoot::Run after RegenerateUevents has returned
AfterRegenerate == {"fork", "restorecon", "wait", "mark"}

IsPrefixOf(s, t) ==
    /\ Len(s) <= Len(t)
    /\ \A k \in 1..Len(s) : s[k] = t[k]

SocketIds == { socket[k].id : k \in 1..Len(socket) }

QueueIds == { uevent_queue_[k].id : k \in 1..Len(uevent_queue_) }

\* a step after regeneration and before the poll loop takes nothing from the socket
SocketNotRead == (pc \in AfterRegenerate) => IsPrefixOf(socket, socket')

\* how many calls of HandleDeviceEvent the main process made on uevent id
TimesHandledByMain(id) ==
    Cardinality({ k \in 1..Len(log) :
                    log[k].op = "HandleDeviceEvent" /\ log[k].uevent.id = id })

(***************************************************************************)
(* C13, as claimed, the part that fails: a uevent handled by the           *)
(* steady-state callback after a cold boot is handled after the marker has *)
(* been written.                                                           *)
(***************************************************************************)
C13_HandledAfterMarkerWritten ==
    (~marker_at_start /\ MainDeviceCalls # {}) => marker

(***************************************************************************)
(* C13, amended: a uevent that arrives after regeneration has drained the  *)
(* socket is not read during the fork, restorecon, reap and marking        *)
(* phases; no worker handles it; the steady-state callback handles it,     *)
(* once, after open(COLDBOOT_DONE, O_CREAT) has been called (the marker    *)
(* written unless that open failed); it is not lost: in the poll loop      *)
(* every uevent sent is in the queue, in the socket or handled, and one in *)
(* the socket is eventually handled.                                       *)
(***************************************************************************)
C13_LateUeventHandledInSteadyState ==
    /\ [][SocketNotRead]_vars
    /\ [](\A c \in WorkerCalls : c.call.uevent.id \in QueueIds)
    /\ [](\A c \in MainDeviceCalls :
              /\ c.uevent.id \notin QueueIds
              /\ TimesHandledByMain(c.uevent.id) = 1
              /\ pc = "poll"
              /\ ~marker_at_start => (open_result # "none" /\ (marker <=> open_result = "ok")))
    /\ [](pc = "poll" =>
              \A id \in 1..emitted :
                  /\ id \in QueueIds \/ id \in SocketIds \/ TimesHandledByMain(id) = 1
                  /\ ~(id \in SocketIds /\ TimesHandledByMain(id) >= 1))
    /\ \A id \in 1..MaxEvents :
           (pc = "poll" /\ id \in SocketIds) ~> (TimesHandledByMain(id) = 1)

C13_Witness ==
    /\ pc = "mark"
    /\ uevent_queue_ # << >>
    /\ socket # << >>

(***************************************************************************)
(* libcutils/fs_config.c: the rule matcher and the codec of the packed     *)
(* rule files.                                                             *)
(*                                                                         *)
(* A C string is the sequence of its bytes without the terminating NUL; a  *)
(* file or a buffer is the sequence of its bytes; a 64-bit capability mask *)
(* is the set of the numbers of its set bits.  A rule (struct              *)
(* fs_path_config) is a record [mode, uid, gid, capabilities, prefix].     *)
(* The host is little-endian, memory allocation succeeds.                  *)
(***************************************************************************)

\* sizeof(struct fs_path_config_from_file): u16 len, mode, uid, gid; u64 capabilities
HeaderSize == 16

UINT16_MAX == 65535

ENOSPC == 28

\* 07777 + 1: the bits of a mode that a rule replaces are those below it
ModeBits == 4096

\* pc->prefix of the entry that ends a built-in table: a null pointer
NullPrefix == << -1 >>

\* conf[which]: the partitions whose packed files are read, in this order
conf == << "system", "vendor", "oem", "odm" >>

\* s[i] of a C string, i counted from 0; s[strlen(s)] is the NUL
CharAt(s, i) == IF i < Len(s) THEN s[i + 1] ELSE 0

Min(a, b) == IF a <= b THEN a ELSE b

\* strnlen(s, n) on a buffer of at least n bytes
strnlen(s, n) ==
    IF \E k \in 1..n : s[k] = 0
    THEN (CHOOSE k \in 1..n : s[k] = 0 /\ \A j \in 1..(k - 1) : s[j] # 0) - 1
    ELSE n

\* strncmp(a, b, n) = 0: the first n bytes agree, or all up to a common NUL
StrncmpEqual(a, b, n) ==
    \A i \in 0..Min(n - 1, Len(a)) : CharAt(a, i) = CharAt(b, i)

\* strncmp(a, b, SIZE_MAX) = 0
StrcmpEqual(a, b) == StrncmpEqual(a, b, Len(a) + 1)

RECURSIVE BitOr(_, _)
\* a | b on unsigned values
BitOr(a, b) ==
    IF a = 0 THEN b
    ELSE IF b = 0 THEN a
    ELSE Max(a % 2, b % 2) + 2 * BitOr(a \div 2, b \div 2)

\* ALIGN(x, alignment), alignment a power of two
ALIGN(x, alignment) == ((x + (alignment - 1)) \div alignment) * alignment

\* get2LE(src): src[0] | (src[1] << 8), as uint16_t
get2LE(src) == src[1] + 256 * src[2]

\* the two bytes in memory of a uint16_t that is assigned the value v
Store16(v) == << v % 256, (v \div 256) % 256 >>

\* bits base..base+7 of a mask, as a byte
MaskByte(mask, base) ==
      (IF base     \in mask THEN 1   ELSE 0) + (IF base + 1 \in mask THEN 2   ELSE 0)
    + (IF base + 2 \in mask THEN 4   ELSE 0) + (IF base + 3 \in mask THEN 8   ELSE 0)
    + (IF base + 4 \in mask THEN 16  ELSE 0) + (IF base + 5 \in mask THEN 32  ELSE 0)
    + (IF base + 6 \in mask THEN 64  ELSE 0) + (IF base + 7 \in mask THEN 128 ELSE 0)

\* the eight bytes in memory of a uint64_t that holds the mask
Store64(mask) == [k \in 1..8 |-> MaskByte(mask, 8 * (k - 1))]

\* variant: the low word only
get8LELowWord(src) == { b \in 0..31 : (src[(b \div 8) + 1] \div (2 ^ (b % 8))) % 2 = 1 }

\* get8LE(src): the mask whose byte k is src[k]
get8LE(src) == { b \in 0..63 : (src[(b \div 8) + 1] \div (2 ^ (b % 8))) % 2 = 1 }

(***************************************************************************)
(* fs_config_cmp.  prefix[len - 1] with len = 0 reads the byte in front of *)
(* the string, which is not part of it: stray is what is found there.      *)
(***************************************************************************)
\* variant: only the exact comparison
CmpExactOnly(dir, prefix, len, path, plen, stray) ==
    plen = len /\ StrncmpEqual(prefix, path, len)

fs_config_cmp(dir, prefix, len, path, plen, stray) ==
    IF dir
    THEN IF plen < len THEN FALSE ELSE StrncmpEqual(prefix, path, len)
    ELSE IF (IF len = 0 THEN stray ELSE prefix[len]) = 42
         THEN IF len = 0 THEN StrcmpEqual(prefix, path)        \* len - 1 = SIZE_MAX
                         ELSE StrncmpEqual(prefix, path, len - 1)
         ELSE IF plen # len THEN FALSE ELSE StrncmpEqual(prefix, path, len)

(***************************************************************************)
(* fs_config_generate: returns the length of the record and the buffer.    *)
(***************************************************************************)
\* variant: no room for the terminating NUL
GenerateLenNoNul(pc_) == ALIGN(HeaderSize + Len(pc_.prefix), 8)

\* len = ALIGN(sizeof(*p) + strlen(pc->prefix) + 1, sizeof(uint64_t))
GenerateLen(pc_) == ALIGN(HeaderSize + Len(pc_.prefix) + 1, 8)

\* byte k (from 1) of the record written for rule pc_ with length len
RecordByte(pc_, len, k) ==
    IF k <= 2 THEN Store16(get2LE(Store16(len)))[k]
    ELSE IF k <= 4 THEN Store16(get2LE(Store16(pc_.mode)))[k - 2]
    ELSE IF k <= 6 THEN Store16(get2LE(Store16(pc_.uid)))[k - 4]
    ELSE IF k <= 8 THEN Store16(get2LE(Store16(pc_.gid)))[k - 6]
    ELSE IF k <= HeaderSize THEN Store64(get8LE(Store64(pc_.capabilities)))[k - 8]
    ELSE IF k <= HeaderSize + Len(pc_.prefix) THEN pc_.prefix[k - HeaderSize]
    ELSE 0

\* variant: the record is written whatever its length, as far as the buffer goes
GenerateUnchecked(buffer, length, pc_) ==
    [ret |-> GenerateLen(pc_),
     buffer |-> [k \in 1..Len(buffer) |->
                    IF k <= GenerateLen(pc_) THEN RecordByte(pc_, GenerateLen(pc_), k)
                    ELSE buffer[k]]]

fs_config_generate(buffer, length, pc_) ==
    LET len == GenerateLen(pc_) IN
    IF length < len \/ len > UINT16_MAX
    THEN [ret |-> 0 - ENOSPC, buffer |-> buffer]
    ELSE [ret |-> len,
          buffer |-> [k \in 1..Len(buffer) |->
                         IF k <= len THEN RecordByte(pc_, len, k) ELSE buffer[k]]]

(***************************************************************************)
(* The built-in tables.  Modes are written in decimal, capabilities as the *)
(* numbers of the bits CAP_MASK_LONG sets; AID_* and CAP_* are declared    *)
(* outside this source tree.                                               *)
(***************************************************************************)
android_dirs ==
    <<
      \* 00770 AID_SYSTEM AID_CACHE "cache"
      [mode |-> 504, uid |-> 1000, gid |-> 2001, capabilities |-> {},
       prefix |-> <<99, 97, 99, 104, 101>>],
      \* 00500 AID_ROOT AID_ROOT "config"
      [mode |-> 320, uid |-> 0, gid |-> 0, capabilities |-> {},
       prefix |-> <<99, 111, 110, 102, 105, 103>>],
      \* 00771 AID_SYSTEM AID_SYSTEM "data/app"
      [mode |-> 505, uid |-> 1000, gid |-> 1000, capabilities |-> {},
       prefix |-> <<100, 97, 116, 97, 47, 97, 112, 112>>],
      \* 00771 AID_SYSTEM AID_SYSTEM "data/app-private"
      [mode |-> 505, uid |-> 1000, gid |-> 1000, capabilities |-> {},
       prefix |-> <<100, 97, 116, 97, 47, 97, 112, 112, 45, 112, 114, 105, 118, 97, 116, 101>>],
      \* 00771 AID_SYSTEM AID_SYSTEM "data/app-ephemeral"
      [mode |-> 505, uid |-> 1000, gid |-> 1000, capabilities |-> {},
       prefix |-> <<100, 97, 116, 97, 47, 97, 112, 112, 45, 101, 112, 104, 101, 109, 101, 114, 97, 108>>],
      \* 00771 AID_ROOT AID_ROOT "data/dalvik-cache"
      [mode |-> 505, uid |-> 0, gid |-> 0, capabilities |-> {},
       prefix |-> <<100, 97, 116, 97, 47, 100, 97, 108, 118, 105, 107, 45, 99, 97, 99, 104, 101>>],
      \* 00771 AID_SYSTEM AID_SYSTEM "data/data"
      [mode |-> 505, uid |-> 1000, gid |-> 1000, capabilities |-> {},
       prefix |-> <<100, 97, 116, 97, 47, 100, 97, 116, 97>>],
      \* 00771 AID_SHELL AID_SHELL "data/local/tmp"
      [mode |-> 505, uid |-> 2000, gid |-> 2000, capabilities |-> {},
       prefix |-> <<100, 97, 116, 97, 47, 108, 111, 99, 97, 108, 47, 116, 109, 112>>],
      \* 00771 AID_SHELL AID_SHELL "data/local"
      [mode |-> 505, uid |-> 2000, gid |-> 2000, capabilities |-> {},
       prefix |-> <<100, 97, 116, 97, 47, 108, 111, 99, 97, 108>>],
      \* 00770 AID_DHCP AID_DHCP "data/misc/dhcp"
      [mode |-> 504, uid |-> 1014, gid |-> 1014, capabilities |-> {},
       prefix |-> <<100, 97, 116, 97, 47, 109, 105, 115, 99, 47, 100, 104, 99, 112>>],
      \* 00771 AID_SHARED_RELRO AID_SHARED_RELRO "data/misc/shared_relro"
      [mode |-> 505, uid |-> 1037, gid |-> 1037, capabilities |-> {},
       prefix |-> <<100, 97, 116, 97, 47, 109, 105, 115, 99, 47, 115, 104, 97, 114, 101, 100, 95, 114, 101, 108, 114, 111>>],
      \* 01771 AID_SYSTEM AID_MISC "data/misc"
      [mode |-> 1017, uid |-> 1000, gid |-> 9998, capabilities |-> {},
       prefix |-> <<100, 97, 116, 97, 47, 109, 105, 115, 99>>],
      \* 00775 AID_MEDIA_RW AID_MEDIA_RW "data/media/Music"
      [mode |-> 509, uid |-> 1023, gid |-> 1023, capabilities |-> {},
       prefix |-> <<100, 97, 116, 97, 47, 109, 101, 100, 105, 97, 47, 77, 117, 115, 105, 99>>],
      \* 00775 AID_MEDIA_RW AID_MEDIA_RW "data/media"
      [mode |-> 509, uid |-> 1023, gid |-> 1023, capabilities |-> {},
       prefix |-> <<100, 97, 116, 97, 47, 109, 101, 100, 105, 97>>],
      \* 00750 AID_ROOT AID_SHELL "data/nativetest"
      [mode |-> 488, uid |-> 0, gid |-> 2000, capabilities |-> {},
       prefix |-> <<100, 97, 116, 97, 47, 110, 97, 116, 105, 118, 101, 116, 101, 115, 116>>],
      \* 00750 AID_ROOT AID_SHELL "data/nativetest64"
      [mode |-> 488, uid |-> 0, gid |-> 2000, capabilities |-> {},
       prefix |-> <<100, 97, 116, 97, 47, 110, 97, 116, 105, 118, 101, 116, 101, 115, 116, 54, 52>>],
      \* 00775 AID_ROOT AID_ROOT "data/preloads"
      [mode |-> 509, uid |-> 0, gid |-> 0, capabilities |-> {},
       prefix |-> <<100, 97, 116, 97, 47, 112, 114, 101, 108, 111, 97, 100, 115>>],
      \* 00771 AID_SYSTEM AID_SYSTEM "data"
      [mode |-> 505, uid |-> 1000, gid |-> 1000, capabilities |-> {},
       prefix |-> <<100, 97, 116, 97>>],
      \* 00755 AID_ROOT AID_SYSTEM "mnt"
      [mode |-> 493, uid |-> 0, gid |-> 1000, capabilities |-> {},
       prefix |-> <<109, 110, 116>>],
      \* 00755 AID_ROOT AID_ROOT "root"
      [mode |-> 493, uid |-> 0, gid |-> 0, capabilities |-> {},
       prefix |-> <<114, 111, 111, 116>>],
      \* 00750 AID_ROOT AID_SHELL "sbin"
      [mode |-> 488, uid |-> 0, gid |-> 2000, capabilities |-> {},
       prefix |-> <<115, 98, 105, 110>>],
      \* 00777 AID_ROOT AID_ROOT "sdcard"
      [mode |-> 511, uid |-> 0, gid |-> 0, capabilities |-> {},
       prefix |-> <<115, 100, 99, 97, 114, 100>>],
      \* 00751 AID_ROOT AID_SDCARD_R "storage"
      [mode |-> 489, uid |-> 0, gid |-> 1028, capabilities |-> {},
       prefix |-> <<115, 116, 111, 114, 97, 103, 101>>],
      \* 00755 AID_ROOT AID_SHELL "system/bin"
      [mode |-> 493, uid |-> 0, gid |-> 2000, capabilities |-> {},
       prefix |-> <<115, 121, 115, 116, 101, 109, 47, 98, 105, 110>>],
      \* 00755 AID_ROOT AID_ROOT "system/etc/ppp"
      [mode |-> 493, uid |-> 0, gid |-> 0, capabilities |-> {},
       prefix |-> <<115, 121, 115, 116, 101, 109, 47, 101, 116, 99, 47, 112, 112, 112>>],
      \* 00755 AID_ROOT AID_SHELL "system/vendor"
      [mode |-> 493, uid |-> 0, gid |-> 2000, capabilities |-> {},
       prefix |-> <<115, 121, 115, 116, 101, 109, 47, 118, 101, 110, 100, 111, 114>>],
      \* 00755 AID_ROOT AID_SHELL "system/xbin"
      [mode |-> 493, uid |-> 0, gid |-> 2000, capabilities |-> {},
       prefix |-> <<115, 121, 115, 116, 101, 109, 47, 120, 98, 105, 110>>],
      \* 00755 AID_ROOT AID_SHELL "vendor"
      [mode |-> 493, uid |-> 0, gid |-> 2000, capabilities |-> {},
       prefix |-> <<118, 101, 110, 100, 111, 114>>],
      \* 00755 AID_ROOT AID_ROOT 0 (end of table)
      [mode |-> 493, uid |-> 0, gid |-> 0, capabilities |-> {},
       prefix |-> NullPrefix]
    >>

android_files ==
    <<
      \* 00644 AID_SYSTEM AID_SYSTEM "data/app/*"
      [mode |-> 420, uid |-> 1000, gid |-> 1000, capabilities |-> {},
       prefix |-> <<100, 97, 116, 97, 47, 97, 112, 112, 47, 42>>],
      \* 00644 AID_SYSTEM AID_SYSTEM "data/app-ephemeral/*"
      [mode |-> 420, uid |-> 1000, gid |-> 1000, capabilities |-> {},
       prefix |-> <<100, 97, 116, 97, 47, 97, 112, 112, 45, 101, 112, 104, 101, 109, 101, 114, 97, 108, 47, 42>>],
      \* 00644 AID_SYSTEM AID_SYSTEM "data/app-private/*"
      [mode |-> 420, uid |-> 1000, gid |-> 1000, capabilities |-> {},
       prefix |-> <<100, 97, 116, 97, 47, 97, 112, 112, 45, 112, 114, 105, 118, 97, 116, 101, 47, 42>>],
      \* 00644 AID_APP AID_APP "data/data/*"
      [mode |-> 420, uid |-> 10000, gid |-> 10000, capabilities |-> {},
       prefix |-> <<100, 97, 116, 97, 47, 100, 97, 116, 97, 47, 42>>],
      \* 00644 AID_MEDIA_RW AID_MEDIA_RW "data/media/*"
      [mode |-> 420, uid |-> 1023, gid |-> 1023, capabilities |-> {},
       prefix |-> <<100, 97, 116, 97, 47, 109, 101, 100, 105, 97, 47, 42>>],
      \* 00640 AID_ROOT AID_SHELL "data/nativetest/tests.txt"
      [mode |-> 416, uid |-> 0, gid |-> 2000, capabilities |-> {},
       prefix |-> <<100, 97, 116, 97, 47, 110, 97, 116, 105, 118, 101, 116, 101, 115, 116, 47, 116, 101, 115, 116, 115, 46, 116, 120, 116>>],
      \* 00640 AID_ROOT AID_SHELL "data/nativetest64/tests.txt"
      [mode |-> 416, uid |-> 0, gid |-> 2000, capabilities |-> {},
       prefix |-> <<100, 97, 116, 97, 47, 110, 97, 116, 105, 118, 101, 116, 101, 115, 116, 54, 52, 47, 116, 101, 115, 116, 115, 46, 116, 120, 116>>],
      \* 00750 AID_ROOT AID_SHELL "data/nativetest/*"
      [mode |-> 488, uid |-> 0, gid |-> 2000, capabilities |-> {},
       prefix |-> <<100, 97, 116, 97, 47, 110, 97, 116, 105, 118, 101, 116, 101, 115, 116, 47, 42>>],
      \* 00750 AID_ROOT AID_SHELL "data/nativetest64/*"
      [mode |-> 488, uid |-> 0, gid |-> 2000, capabilities |-> {},
       prefix |-> <<100, 97, 116, 97, 47, 110, 97, 116, 105, 118, 101, 116, 101, 115, 116, 54, 52, 47, 42>>],
      \* 00600 AID_ROOT AID_ROOT "default.prop"
      [mode |-> 384, uid |-> 0, gid |-> 0, capabilities |-> {},
       prefix |-> <<100, 101, 102, 97, 117, 108, 116, 46, 112, 114, 111, 112>>],
      \* 00600 AID_ROOT AID_ROOT "odm/build.prop"
      [mode |-> 384, uid |-> 0, gid |-> 0, capabilities |-> {},
       prefix |-> <<111, 100, 109, 47, 98, 117, 105, 108, 100, 46, 112, 114, 111, 112>>],
      \* 00600 AID_ROOT AID_ROOT "odm/default.prop"
      [mode |-> 384, uid |-> 0, gid |-> 0, capabilities |-> {},
       prefix |-> <<111, 100, 109, 47, 100, 101, 102, 97, 117, 108, 116, 46, 112, 114, 111, 112>>],
      \* 00444 AID_ROOT AID_ROOT "odm/etc/fs_config_dirs"
      [mode |-> 292, uid |-> 0, gid |-> 0, capabilities |-> {},
       prefix |-> <<111, 100, 109, 47, 101, 116, 99, 47, 102, 115, 95, 99, 111, 110, 102, 105, 103, 95, 100, 105, 114, 115>>],
      \* 00444 AID_ROOT AID_ROOT "odm/etc/fs_config_files"
      [mode |-> 292, uid |-> 0, gid |-> 0, capabilities |-> {},
       prefix |-> <<111, 100, 109, 47, 101, 116, 99, 47, 102, 115, 95, 99, 111, 110, 102, 105, 103, 95, 102, 105, 108, 101, 115>>],
      \* 00444 AID_ROOT AID_ROOT "oem/etc/fs_config_dirs"
      [mode |-> 292, uid |-> 0, gid |-> 0, capabilities |-> {},
       prefix |-> <<111, 101, 109, 47, 101, 116, 99, 47, 102, 115, 95, 99, 111, 110, 102, 105, 103, 95, 100, 105, 114, 115>>],
      \* 00444 AID_ROOT AID_ROOT "oem/etc/fs_config_files"
      [mode |-> 292, uid |-> 0, gid |-> 0, capabilities |-> {},
       prefix |-> <<111, 101, 109, 47, 101, 116, 99, 47, 102, 115, 95, 99, 111, 110, 102, 105, 103, 95, 102, 105, 108, 101, 115>>],
      \* 00750 AID_ROOT AID_SHELL "sbin/fs_mgr"
      [mode |-> 488, uid |-> 0, gid |-> 2000, capabilities |-> {},
       prefix |-> <<115, 98, 105, 110, 47, 102, 115, 95, 109, 103, 114>>],
      \* 00755 AID_ROOT AID_SHELL "system/bin/crash_dump32"
      [mode |-> 493, uid |-> 0, gid |-> 2000, capabilities |-> {},
       prefix |-> <<115, 121, 115, 116, 101, 109, 47, 98, 105, 110, 47, 99, 114, 97, 115, 104, 95, 100, 117, 109, 112, 51, 50>>],
      \* 00755 AID_ROOT AID_SHELL "system/bin/crash_dump64"
      [mode |-> 493, uid |-> 0, gid |-> 2000, capabilities |-> {},
       prefix |-> <<115, 121, 115, 116, 101, 109, 47, 98, 105, 110, 47, 99, 114, 97, 115, 104, 95, 100, 117, 109, 112, 54, 52>>],
      \* 00755 AID_ROOT AID_SHELL "system/bin/debuggerd"
      [mode |-> 493, uid |-> 0, gid |-> 2000, capabilities |-> {},
       prefix |-> <<115, 121, 115, 116, 101, 109, 47, 98, 105, 110, 47, 100, 101, 98, 117, 103, 103, 101, 114, 100>>],
      \* 00750 AID_ROOT AID_ROOT "system/bin/install-recovery.sh"
      [mode |-> 488, uid |-> 0, gid |-> 0, capabilities |-> {},
       prefix |-> <<115, 121, 115, 116, 101, 109, 47, 98, 105, 110, 47, 105, 110, 115, 116, 97, 108, 108, 45, 114, 101, 99, 111, 118, 101, 114, 121, 46, 115, 104>>],
      \* 00700 AID_ROOT AID_ROOT "system/bin/secilc"
      [mode |-> 448, uid |-> 0, gid |-> 0, capabilities |-> {},
       prefix |-> <<115, 121, 115, 116, 101, 109, 47, 98, 105, 110, 47, 115, 101, 99, 105, 108, 99>>],
      \* 00750 AID_ROOT AID_ROOT "system/bin/uncrypt"
      [mode |-> 488, uid |-> 0, gid |-> 0, capabilities |-> {},
       prefix |-> <<115, 121, 115, 116, 101, 109, 47, 98, 105, 110, 47, 117, 110, 99, 114, 121, 112, 116>>],
      \* 00600 AID_ROOT AID_ROOT "system/build.prop"
      [mode |-> 384, uid |-> 0, gid |-> 0, capabilities |-> {},
       prefix |-> <<115, 121, 115, 116, 101, 109, 47, 98, 117, 105, 108, 100, 46, 112, 114, 111, 112>>],
      \* 00444 AID_ROOT AID_ROOT "system/etc/fs_config_dirs"
      [mode |-> 292, uid |-> 0, gid |-> 0, capabilities |-> {},
       prefix |-> <<115, 121, 115, 116, 101, 109, 47, 101, 116, 99, 47, 102, 115, 95, 99, 111, 110, 102, 105, 103, 95, 100, 105, 114, 115>>],
      \* 00444 AID_ROOT AID_ROOT "system/etc/fs_config_files"
      [mode |-> 292, uid |-> 0, gid |-> 0, capabilities |-> {},
       prefix |-> <<115, 121, 115, 116, 101, 109, 47, 101, 116, 99, 47, 102, 115, 95, 99, 111, 110, 102, 105, 103, 95, 102, 105, 108, 101, 115>>],
      \* 00440 AID_ROOT AID_SHELL "system/etc/init.goldfish.rc"
      [mode |-> 288, uid |-> 0, gid |-> 2000, capabilities |-> {},
       prefix |-> <<115, 121, 115, 116, 101, 109, 47, 101, 116, 99, 47, 105, 110, 105, 116, 46, 103, 111, 108, 100, 102, 105, 115, 104, 46, 114, 99>>],
      \* 00550 AID_ROOT AID_SHELL "system/etc/init.goldfish.sh"
      [mode |-> 360, uid |-> 0, gid |-> 2000, capabilities |-> {},
       prefix |-> <<115, 121, 115, 116, 101, 109, 47, 101, 116, 99, 47, 105, 110, 105, 116, 46, 103, 111, 108, 100, 102, 105, 115, 104, 46, 115, 104>>],
      \* 00550 AID_ROOT AID_SHELL "system/etc/init.ril"
      [mode |-> 360, uid |-> 0, gid |-> 2000, capabilities |-> {},
       prefix |-> <<115, 121, 115, 116, 101, 109, 47, 101, 116, 99, 47, 105, 110, 105, 116, 46, 114, 105, 108>>],
      \* 00555 AID_ROOT AID_ROOT "system/etc/ppp/*"
      [mode |-> 365, uid |-> 0, gid |-> 0, capabilities |-> {},
       prefix |-> <<115, 121, 115, 116, 101, 109, 47, 101, 116, 99, 47, 112, 112, 112, 47, 42>>],
      \* 00555 AID_ROOT AID_ROOT "system/etc/rc.*"
      [mode |-> 365, uid |-> 0, gid |-> 0, capabilities |-> {},
       prefix |-> <<115, 121, 115, 116, 101, 109, 47, 101, 116, 99, 47, 114, 99, 46, 42>>],
      \* 00440 AID_ROOT AID_ROOT "system/etc/recovery.img"
      [mode |-> 288, uid |-> 0, gid |-> 0, capabilities |-> {},
       prefix |-> <<115, 121, 115, 116, 101, 109, 47, 101, 116, 99, 47, 114, 101, 99, 111, 118, 101, 114, 121, 46, 105, 109, 103>>],
      \* 00440 AID_RADIO AID_ROOT "system/etc/xtables.lock"
      [mode |-> 288, uid |-> 1001, gid |-> 0, capabilities |-> {},
       prefix |-> <<115, 121, 115, 116, 101, 109, 47, 101, 116, 99, 47, 120, 116, 97, 98, 108, 101, 115, 46, 108, 111, 99, 107>>],
      \* 00600 AID_ROOT AID_ROOT "vendor/build.prop"
      [mode |-> 384, uid |-> 0, gid |-> 0, capabilities |-> {},
       prefix |-> <<118, 101, 110, 100, 111, 114, 47, 98, 117, 105, 108, 100, 46, 112, 114, 111, 112>>],
      \* 00600 AID_ROOT AID_ROOT "vendor/default.prop"
      [mode |-> 384, uid |-> 0, gid |-> 0, capabilities |-> {},
       prefix |-> <<118, 101, 110, 100, 111, 114, 47, 100, 101, 102, 97, 117, 108, 116, 46, 112, 114, 111, 112>>],
      \* 00444 AID_ROOT AID_ROOT "vendor/etc/fs_config_dirs"
      [mode |-> 292, uid |-> 0, gid |-> 0, capabilities |-> {},
       prefix |-> <<118, 101, 110, 100, 111, 114, 47, 101, 116, 99, 47, 102, 115, 95, 99, 111, 110, 102, 105, 103, 95, 100, 105, 114, 115>>],
      \* 00444 AID_ROOT AID_ROOT "vendor/etc/fs_config_files"
      [mode |-> 292, uid |-> 0, gid |-> 0, capabilities |-> {},
       prefix |-> <<118, 101, 110, 100, 111, 114, 47, 101, 116, 99, 47, 102, 115, 95, 99, 111, 110, 102, 105, 103, 95, 102, 105, 108, 101, 115>>],
      \* 06755 AID_ROOT AID_ROOT "system/xbin/procmem"
      [mode |-> 3565, uid |-> 0, gid |-> 0, capabilities |-> {},
       prefix |-> <<115, 121, 115, 116, 101, 109, 47, 120, 98, 105, 110, 47, 112, 114, 111, 99, 109, 101, 109>>],
      \* 04750 AID_ROOT AID_SHELL "system/xbin/su"
      [mode |-> 2536, uid |-> 0, gid |-> 2000, capabilities |-> {},
       prefix |-> <<115, 121, 115, 116, 101, 109, 47, 120, 98, 105, 110, 47, 115, 117>>],
      \* 00700 AID_SYSTEM AID_SHELL caps CAP_BLOCK_SUSPEND "system/bin/inputflinger"
      [mode |-> 448, uid |-> 1000, gid |-> 2000, capabilities |-> {36},
       prefix |-> <<115, 121, 115, 116, 101, 109, 47, 98, 105, 110, 47, 105, 110, 112, 117, 116, 102, 108, 105, 110, 103, 101, 114>>],
      \* 00550 AID_LOGD AID_LOGD caps CAP_SYSLOG|CAP_AUDIT_CONTROL|CAP_SETGID "system/bin/logd"
      [mode |-> 360, uid |-> 1036, gid |-> 1036, capabilities |-> {6, 30, 34},
       prefix |-> <<115, 121, 115, 116, 101, 109, 47, 98, 105, 110, 47, 108, 111, 103, 100>>],
      \* 00750 AID_ROOT AID_SHELL caps CAP_SETUID|CAP_SETGID "system/bin/run-as"
      [mode |-> 488, uid |-> 0, gid |-> 2000, capabilities |-> {6, 7},
       prefix |-> <<115, 121, 115, 116, 101, 109, 47, 98, 105, 110, 47, 114, 117, 110, 45, 97, 115>>],
      \* 00755 AID_SYSTEM AID_GRAPHICS caps CAP_SYS_NICE "system/bin/surfaceflinger"
      [mode |-> 493, uid |-> 1000, gid |-> 1003, capabilities |-> {23},
       prefix |-> <<115, 121, 115, 116, 101, 109, 47, 98, 105, 110, 47, 115, 117, 114, 102, 97, 99, 101, 102, 108, 105, 110, 103, 101, 114>>],
      \* 00755 AID_WIFI AID_WIFI caps CAP_NET_ADMIN|CAP_NET_RAW "system/bin/hostapd"
      [mode |-> 493, uid |-> 1010, gid |-> 1010, capabilities |-> {12, 13},
       prefix |-> <<115, 121, 115, 116, 101, 109, 47, 98, 105, 110, 47, 104, 111, 115, 116, 97, 112, 100>>],
      \* 00700 AID_BLUETOOTH AID_BLUETOOTH caps CAP_NET_ADMIN "vendor/bin/hw/android.hardware.bluetooth@1.0-service"
      [mode |-> 448, uid |-> 1002, gid |-> 1002, capabilities |-> {12},
       prefix |-> <<118, 101, 110, 100, 111, 114, 47, 98, 105, 110, 47, 104, 119, 47, 97, 110, 100, 114, 111, 105, 100, 46, 104, 97, 114, 100, 119, 97, 114, 101, 46, 98, 108, 117, 101, 116, 111, 111, 116, 104, 64, 49, 46, 48, 45, 115, 101, 114, 118, 105, 99, 101>>],
      \* 00755 AID_WIFI AID_WIFI caps CAP_NET_ADMIN|CAP_NET_RAW "vendor/bin/hw/android.hardware.wifi@1.0-service"
      [mode |-> 493, uid |-> 1010, gid |-> 1010, capabilities |-> {12, 13},
       prefix |-> <<118, 101, 110, 100, 111, 114, 47, 98, 105, 110, 47, 104, 119, 47, 97, 110, 100, 114, 111, 105, 100, 46, 104, 97, 114, 100, 119, 97, 114, 101, 46, 119, 105, 102, 105, 64, 49, 46, 48, 45, 115, 101, 114, 118, 105, 99, 101>>],
      \* 0750 AID_ROOT AID_ROOT caps CAP_SETUID|CAP_SETGID|CAP_SETPCAP "system/bin/webview_zygote32"
      [mode |-> 488, uid |-> 0, gid |-> 0, capabilities |-> {6, 7, 8},
       prefix |-> <<115, 121, 115, 116, 101, 109, 47, 98, 105, 110, 47, 119, 101, 98, 118, 105, 101, 119, 95, 122, 121, 103, 111, 116, 101, 51, 50>>],
      \* 0750 AID_ROOT AID_ROOT caps CAP_SETUID|CAP_SETGID|CAP_SETPCAP "system/bin/webview_zygote64"
      [mode |-> 488, uid |-> 0, gid |-> 0, capabilities |-> {6, 7, 8},
       prefix |-> <<115, 121, 115, 116, 101, 109, 47, 98, 105, 110, 47, 119, 101, 98, 118, 105, 101, 119, 95, 122, 121, 103, 111, 116, 101, 54, 52>>],
      \* 00755 AID_ROOT AID_ROOT "bin/*"
      [mode |-> 493, uid |-> 0, gid |-> 0, capabilities |-> {},
       prefix |-> <<98, 105, 110, 47, 42>>],
      \* 00640 AID_ROOT AID_SHELL "fstab.*"
      [mode |-> 416, uid |-> 0, gid |-> 2000, capabilities |-> {},
       prefix |-> <<102, 115, 116, 97, 98, 46, 42>>],
      \* 00750 AID_ROOT AID_SHELL "init*"
      [mode |-> 488, uid |-> 0, gid |-> 2000, capabilities |-> {},
       prefix |-> <<105, 110, 105, 116, 42>>],
      \* 00750 AID_ROOT AID_SHELL "sbin/*"
      [mode |-> 488, uid |-> 0, gid |-> 2000, capabilities |-> {},
       prefix |-> <<115, 98, 105, 110, 47, 42>>],
      \* 00755 AID_ROOT AID_SHELL "system/bin/*"
      [mode |-> 493, uid |-> 0, gid |-> 2000, capabilities |-> {},
       prefix |-> <<115, 121, 115, 116, 101, 109, 47, 98, 105, 110, 47, 42>>],
      \* 00755 AID_ROOT AID_ROOT "system/lib/valgrind/*"
      [mode |-> 493, uid |-> 0, gid |-> 0, capabilities |-> {},
       prefix |-> <<115, 121, 115, 116, 101, 109, 47, 108, 105, 98, 47, 118, 97, 108, 103, 114, 105, 110, 100, 47, 42>>],
      \* 00755 AID_ROOT AID_ROOT "system/lib64/valgrind/*"
      [mode |-> 493, uid |-> 0, gid |-> 0, capabilities |-> {},
       prefix |-> <<115, 121, 115, 116, 101, 109, 47, 108, 105, 98, 54, 52, 47, 118, 97, 108, 103, 114, 105, 110, 100, 47, 42>>],
      \* 00755 AID_ROOT AID_SHELL "system/vendor/bin/*"
      [mode |-> 493, uid |-> 0, gid |-> 2000, capabilities |-> {},
       prefix |-> <<115, 121, 115, 116, 101, 109, 47, 118, 101, 110, 100, 111, 114, 47, 98, 105, 110, 47, 42>>],
      \* 00755 AID_ROOT AID_SHELL "system/vendor/xbin/*"
      [mode |-> 493, uid |-> 0, gid |-> 2000, capabilities |-> {},
       prefix |-> <<115, 121, 115, 116, 101, 109, 47, 118, 101, 110, 100, 111, 114, 47, 120, 98, 105, 110, 47, 42>>],
      \* 00755 AID_ROOT AID_SHELL "system/xbin/*"
      [mode |-> 493, uid |-> 0, gid |-> 2000, capabilities |-> {},
       prefix |-> <<115, 121, 115, 116, 101, 109, 47, 120, 98, 105, 110, 47, 42>>],
      \* 00755 AID_ROOT AID_SHELL "vendor/bin/*"
      [mode |-> 493, uid |-> 0, gid |-> 2000, capabilities |-> {},
       prefix |-> <<118, 101, 110, 100, 111, 114, 47, 98, 105, 110, 47, 42>>],
      \* 00755 AID_ROOT AID_SHELL "vendor/xbin/*"
      [mode |-> 493, uid |-> 0, gid |-> 2000, capabilities |-> {},
       prefix |-> <<118, 101, 110, 100, 111, 114, 47, 120, 98, 105, 110, 47, 42>>],
      \* 00644 AID_ROOT AID_ROOT 0 (end of table)
      [mode |-> 420, uid |-> 0, gid |-> 0, capabilities |-> {},
       prefix |-> NullPrefix]
    >>

(***************************************************************************)
(* fs_config: one turn of the while loop that reads a packed file, from    *)
(* the read of the header up to the call of fs_config_cmp.                 *)
(***************************************************************************)
\* the loop stops without a record: status "end" at the end of the file,
\* "break" with the ALOGE message otherwise
NoRecord(status, error, offset) ==
    [status |-> status, error |-> error, header |-> << >>, prefix |-> << >>,
     len |-> 0, next |-> offset]

\* variant: a prefix without NUL is taken as it is
ReadTerminatedUnchecked(header, prefix, remainder, len, offset) ==
    [status |-> "record", error |-> "", header |-> header,
     prefix |-> SubSeq(prefix, 1, len), len |-> len,
     next |-> offset + HeaderSize + remainder]

\* len = strnlen(prefix, remainder) and the test for the terminating NUL
ReadTerminated(header, prefix, remainder, len, offset) ==
    IF len >= remainder THEN NoRecord("break", "is corrupted", offset)
    ELSE [status |-> "record", error |-> "", header |-> header,
          prefix |-> SubSeq(prefix, 1, len), len |-> len,
          next |-> offset + HeaderSize + remainder]

\* remainder = host_len - sizeof(header) and the read of the prefix
ReadPrefix(file, offset, header, remainder) ==
    IF remainder <= 0 THEN NoRecord("break", "len is corrupted", offset)
    ELSE IF Len(file) - (offset + HeaderSize) < remainder
    THEN NoRecord("break", "prefix is truncated", offset)
    ELSE ReadTerminated(header,
            SubSeq(file, offset + HeaderSize + 1, offset + HeaderSize + remainder),
            remainder,
            strnlen(SubSeq(file, offset + HeaderSize + 1, offset + HeaderSize + remainder),
                    remainder),
            offset)

\* the read of the header
ReadRecord(file, offset) ==
    IF Len(file) - offset < HeaderSize THEN NoRecord("end", "", offset)
    ELSE ReadPrefix(file, offset, SubSeq(file, offset + 1, offset + HeaderSize),
                    get2LE(SubSeq(file, offset + 1, offset + 2)) - HeaderSize)

RECURSIVE ReadRecords(_, _, _, _, _, _)
\* variant: a later record of the file that matches wins
MatchRecordLastWins(r, file, dir, path, plen, stray) ==
    IF r.status # "record"
    THEN [matched |-> FALSE, header |-> << >>, error |-> r.error]
    ELSE IF ReadRecords(file, r.next, dir, path, plen, stray).matched
    THEN ReadRecords(file, r.next, dir, path, plen, stray)
    ELSE IF fs_config_cmp(dir, r.prefix, r.len, path, plen, stray)
    THEN [matched |-> TRUE, header |-> r.header, error |-> ""]
    ELSE ReadRecords(file, r.next, dir, path, plen, stray)

\* the body of the while loop after record r was read
MatchRecord(r, file, dir, path, plen, stray) ==
    IF r.status # "record"
    THEN [matched |-> FALSE, header |-> << >>, error |-> r.error]
    ELSE IF fs_config_cmp(dir, r.prefix, r.len, path, plen, stray)
    THEN [matched |-> TRUE, header |-> r.header, error |-> ""]
    ELSE ReadRecords(file, r.next, dir, path, plen, stray)

\* the while loop on one packed file, from the given offset
ReadRecords(file, offset, dir, path, plen, stray) ==
    MatchRecord(ReadRecord(file, offset), file, dir, path, plen, stray)

\* the file logged an error: the message goes in front of what follows
WithError(which, error, rest) ==
    IF error = "" THEN rest
    ELSE [rest EXCEPT !.aloge = << [conf |-> conf[which], msg |-> error] >> \o @]

RECURSIVE ScanConf(_, _, _, _, _, _)
\* variant: an error in one packed file ends the loop over the packed files
AfterFileGivesUp(r, which, files, dir, path, plen, stray) ==
    IF r.matched
    THEN [matched |-> TRUE, header |-> r.header, aloge |-> << >>]
    ELSE IF r.error # ""
    THEN [matched |-> FALSE, header |-> << >>,
          aloge |-> << [conf |-> conf[which], msg |-> r.error] >>]
    ELSE ScanConf(which + 1, files, dir, path, plen, stray)

\* the body of the for loop after the while loop on conf[which] ended with r
AfterFile(r, which, files, dir, path, plen, stray) ==
    IF r.matched
    THEN [matched |-> TRUE, header |-> r.header, aloge |-> << >>]
    ELSE WithError(which, r.error, ScanConf(which + 1, files, dir, path, plen, stray))

\* the for loop over conf[which], files[which] being what fs_config_open opens
ScanConf(which, files, dir, path, plen, stray) ==
    IF which > Len(conf)
    THEN [matched |-> FALSE, header |-> << >>, aloge |-> << >>]
    ELSE IF ~files[which].exists
    THEN ScanConf(which + 1, files, dir, path, plen, stray)
    ELSE AfterFile(ReadRecords(files[which].bytes, 0, dir, path, plen, stray),
                   which, files, dir, path, plen, stray)

\* pc = dir ? android_dirs : android_files
BuiltinTable(dir) == IF dir THEN android_dirs ELSE android_files

\* variant: the scan of the built-in table stops at the entry it starts on
BuiltinStopsAlways(entry, dir, path, plen, stray) == TRUE

\* the built-in scan ends on this entry: it ends the table or it matches
BuiltinStops(entry, dir, path, plen, stray) ==
    \/ entry.prefix = NullPrefix
    \/ fs_config_cmp(dir, entry.prefix, Len(entry.prefix), path, plen, stray)

\* the entries of the built-in table from k on that match the path
BuiltinMatching(k, dir, path, plen, stray) ==
    { i \in k..Len(BuiltinTable(dir)) :
        /\ BuiltinTable(dir)[i].prefix # NullPrefix
        /\ fs_config_cmp(dir, BuiltinTable(dir)[i].prefix,
                         Len(BuiltinTable(dir)[i].prefix), path, plen, stray) }

\* variant: the last entry of the built-in table that matches wins
BuiltinScanLast(k, dir, path, plen, stray) ==
    IF BuiltinMatching(k, dir, path, plen, stray) = {} THEN Len(BuiltinTable(dir))
    ELSE CHOOSE i \in BuiltinMatching(k, dir, path, plen, stray) :
            \A j \in BuiltinMatching(k, dir, path, plen, stray) : j <= i

RECURSIVE BuiltinScan(_, _, _, _, _)
\* the for loop over the built-in table, from entry k
BuiltinScan(k, dir, path, plen, stray) ==
    IF BuiltinStops(BuiltinTable(dir)[k], dir, path, plen, stray) THEN k
    ELSE BuiltinScan(k + 1, dir, path, plen, stray)

\* variant: the path is taken as it is
StripSlashNever(path) == path

\* path++ when path[0] == '/'
StripSlash(path) == IF CharAt(path, 0) = 47 THEN Tail(path) ELSE path

\* (*mode & (~07777)) | rule_mode
NewMode(mode, rule_mode) == BitOr(mode - (mode % ModeBits), rule_mode)

\* variant: uid and gid are read from each other's bytes
FromHeaderSwapped(header, mode, aloge) ==
    [uid |-> get2LE(SubSeq(header, 7, 8)),
     gid |-> get2LE(SubSeq(header, 5, 6)),
     mode |-> NewMode(mode, get2LE(SubSeq(header, 3, 4))),
     capabilities |-> get8LE(SubSeq(header, 9, 16)),
     aloge |-> aloge]

\* what is stored through uid, gid, mode, capabilities for a packed record
FromHeader(header, mode, aloge) ==
    [uid |-> get2LE(SubSeq(header, 5, 6)),
     gid |-> get2LE(SubSeq(header, 7, 8)),
     mode |-> NewMode(mode, get2LE(SubSeq(header, 3, 4))),
     capabilities |-> get8LE(SubSeq(header, 9, 16)),
     aloge |-> aloge]

\* what is stored through uid, gid, mode, capabilities for a built-in entry
FromBuiltin(pc_, mode, aloge) ==
    [uid |-> pc_.uid,
     gid |-> pc_.gid,
     mode |-> NewMode(mode, pc_.mode),
     capabilities |-> pc_.capabilities,
     aloge |-> aloge]

\* fs_config after the loop over the packed files ended with packed
AfterPacked(packed, path, plen, dir, mode, stray) ==
    IF packed.matched
    THEN FromHeader(packed.header, mode, packed.aloge)
    ELSE FromBuiltin(BuiltinTable(dir)[BuiltinScan(1, dir, path, plen, stray)],
                     mode, packed.aloge)

\* fs_config after the leading slash was dropped and plen = strlen(path)
OnStripped(path, plen, dir, files, mode, stray) ==
    AfterPacked(ScanConf(1, files, dir, path, plen, stray), path, plen, dir, mode, stray)

\* fs_config(path, dir, ...) with *mode = mode on entry; files[which] is what
\* fs_config_open(dir, which, target_out_path) opens; the result also holds
\* the ALOGE messages
fs_config(path, dir, files, mode, stray) ==
    OnStripped(StripSlash(path), Len(StripSlash(path)), dir, files, mode, stray)

(***************************************************************************)
(* The callers of fs_config.c: what they pass and what the files hold.     *)
(***************************************************************************)
\* longest string passed to fs_config_cmp on its own
MaxCmpLen == 2

\* 'a', '*', '/'
CmpAlphabet == {97, 42, 47}

CmpStrings == UNION { [1..n -> CmpAlphabet] : n \in 0..MaxCmpLen }

\* the byte in front of an empty prefix: '*' or something else
StrayBytes == {42, 0}

\* rules that packed files hold
RuleGlob ==      \* 0600 "a*"
    [mode |-> 384, uid |-> 1, gid |-> 2, capabilities |-> {0}, prefix |-> <<97, 42>>]

RuleExact ==     \* 0640 "ab"
    [mode |-> 416, uid |-> 3, gid |-> 4, capabilities |-> {63}, prefix |-> <<97, 98>>]

RuleHigh ==      \* 0170644 "ab": a mode with bits above the low 12
    [mode |-> 61860, uid |-> 5, gid |-> 6, capabilities |-> {}, prefix |-> <<97, 98>>]

RuleEmpty ==     \* 0111 ""
    [mode |-> 73, uid |-> 7, gid |-> 8, capabilities |-> {}, prefix |-> << >>]

RuleBin ==       \* 0755 "system/bin/*"
    [mode |-> 493, uid |-> 0, gid |-> 2000, capabilities |-> {},
     prefix |-> <<115, 121, 115, 116, 101, 109, 47, 98, 105, 110, 47, 42>>]

\* a record of a packed file: the rule it was generated from and what
\* happened to its bytes afterwards
Sound(rule) == [rule |-> rule, damage |-> "none"]

Damaged(rule, damage) == [rule |-> rule, damage |-> damage]

\* declared length = header size; declared length 0; no NUL in the prefix
DamageAnywhere == {"len_header", "len_zero", "no_nul"}

\* the file ends inside the prefix; the file ends inside the header
DamageAtEnd == {"prefix_short", "header_short"}

\* the bytes fs_config_generate writes for the rule
Generated(rule) ==
    fs_config_generate([k \in 1..GenerateLen(rule) |-> 255], GenerateLen(rule), rule).buffer

\* the bytes of one record of a packed file
RecordBytes(item) ==
    LET g == Generated(item.rule) IN
    CASE item.damage = "none" -> g
      [] item.damage = "len_header" -> Store16(HeaderSize) \o SubSeq(g, 3, Len(g))
      [] item.damage = "len_zero" -> Store16(0) \o SubSeq(g, 3, Len(g))
      [] item.damage = "no_nul" ->
            [k \in 1..Len(g) |-> IF k > HeaderSize + Len(item.rule.prefix) THEN 120 ELSE g[k]]
      [] item.damage = "prefix_short" -> SubSeq(g, 1, Len(g) - 1)
      [] item.damage = "header_short" -> SubSeq(g, 1, HeaderSize - 1)

RECURSIVE FileBytes(_)
\* the bytes of a packed file with these records
FileBytes(items) ==
    IF items = << >> THEN << >> ELSE RecordBytes(Head(items)) \o FileBytes(Tail(items))

\* a file that fs_config_open cannot open, and one it can
Absent == [exists |-> FALSE, items |-> << >>]

Present(items) == [exists |-> TRUE, items |-> items]


\* sound files, for every combination of the four partitions
SoundFiles ==
    { Absent,
      Present(<< Sound(RuleGlob) >>),
      Present(<< Sound(RuleExact), Sound(RuleGlob) >>),
      Present(<< Sound(RuleHigh) >>) }

\* files that are alone: empty, the empty prefix, the wildcard under system/bin
LoneFiles ==
    { Present(<< >>),
      Present(<< Sound(RuleEmpty) >>),
      Present(<< Sound(RuleBin) >>) }

\* files with one damaged record, in front of, between and behind sound ones
DamagedFiles ==
    { Present(<< Damaged(RuleExact, d) >>) : d \in DamageAnywhere \cup DamageAtEnd } \cup
    { Present(<< Sound(RuleGlob), Damaged(RuleExact, d) >>) : d \in DamageAnywhere \cup DamageAtEnd } \cup
    { Present(<< Damaged(RuleHigh, d), Sound(RuleGlob) >>) : d \in DamageAnywhere } \cup
    { Present(<< Sound(RuleExact), Damaged(RuleHigh, d), Sound(RuleGlob) >>) : d \in DamageAnywhere }

\* the records of a packed file that are in front of its first damaged one
RECURSIVE Readable(_)
Readable(items) ==
    IF items = << >> \/ Head(items).damage # "none" THEN << >>
    ELSE << Head(items) >> \o Readable(Tail(items))

\* a packed file without its first damaged record and what follows it
Cut(file) == [exists |-> file.exists, items |-> Readable(file.items)]

\* the bytes of every packed file
PackedBytes ==
    [f \in SoundFiles \cup LoneFiles \cup DamagedFiles \cup { Cut(d) : d \in DamagedFiles }
        |-> FileBytes(f.items)]

\* what fs_config_open returns for each of conf[which]
OpenFiles(files) ==
    [which \in DOMAIN files |->
        [exists |-> files[which].exists, bytes |-> PackedBytes[files[which]]]]

\* the packed files of system, vendor, oem, odm that a call finds: sound
\* ones in every combination, a lone file, a damaged file in front of a
\* sound one
FsFiles ==
    { [which \in DOMAIN conf |-> IF which = 4 THEN last ELSE f[which]] :
        f \in [1..3 -> SoundFiles],
        last \in {Absent, Present(<< Sound(RuleExact), Sound(RuleGlob) >>)} } \cup
    { [which \in DOMAIN conf |-> IF which = 2 THEN f ELSE Absent] : f \in LoneFiles } \cup
    { [which \in DOMAIN conf |-> IF which = 2 THEN f
                                 ELSE IF which = 4 THEN last ELSE Absent] :
        f \in DamagedFiles,
        last \in {Absent, Present(<< Sound(RuleExact), Sound(RuleGlob) >>)} }

\* the paths asked for
FsPaths ==
    { << 47 >>,                                                   \* "/"
      << 97 >>,                                                   \* "a"
      << 47, 97, 98 >>,                                           \* "/ab"
      << 47, 47, 97, 98 >>,                                       \* "//ab"
      << 97, 98, 99 >>,                                           \* "abc"
      << 47, 115, 121, 115, 116, 101, 109, 47, 98, 105, 110, 47, 108, 115 >>,
                                                                  \* "/system/bin/ls"
      << 115, 121, 115, 116, 101, 109, 47, 98, 105, 110, 47, 108, 111, 103, 100 >>,
                                                                  \* "system/bin/logd"
      << 100, 97, 116, 97, 47, 97, 112, 112, 45, 112, 114, 105, 118, 97, 116, 101 >>,
                                                                  \* "data/app-private"
      << 122, 122 >> }                                            \* "zz"

\* *mode on entry: 0 and S_IFREG | 0777
FsModes == {0, 33279}

\* rules given to fs_config_generate: those of the packed files, rules whose
\* fields are wider than 16 bits, and rules with the longest prefixes
WideRules ==
    { [mode |-> 420, uid |-> 100000, gid |-> 0, capabilities |-> {}, prefix |-> << 97 >>],
      [mode |-> 420, uid |-> 0, gid |-> 65536, capabilities |-> {}, prefix |-> << 97 >>],
      [mode |-> 65956, uid |-> 0, gid |-> 0, capabilities |-> {}, prefix |-> << 97 >>] }

LongRules ==
    { [mode |-> 420, uid |-> 0, gid |-> 0, capabilities |-> {36},
       prefix |-> SubSeq([k \in 1..n |-> 97], 1, n)] : n \in {65511, 65512, 65519, 65520} }

ShortRules ==
    { [mode |-> 420, uid |-> 1000, gid |-> 2000, capabilities |-> {7, 34},
       prefix |-> [k \in 1..n |-> 97]] : n \in 0..17 }

GenerateRules ==
    {RuleGlob, RuleExact, RuleHigh, RuleEmpty, RuleBin} \cup WideRules \cup LongRules
        \cup ShortRules

\* length - len: the buffer is too short by one, exact, or longer
BufferSlack == {-1, 0, 8}

(***************************************************************************)
(* A call of fs_config.                                                    *)
(***************************************************************************)
FsConfig ==
    /\ fs_op = "idle"
    /\ \E path \in FsPaths, dir \in BOOLEAN, files \in FsFiles,
          mode \in FsModes, stray \in StrayBytes :
          /\ fs_in' = [path |-> path, dir |-> dir, files |-> files,
                       mode |-> mode, stray |-> stray]
          /\ fs_out' = fs_config(path, dir, OpenFiles(files), mode, stray)
    /\ fs_op' = "fs_config"
    /\ UNCHANGED ueventd_vars

(***************************************************************************)
(* A call of fs_config_cmp, as fs_config makes it: prefix holds no NUL,    *)
(* len and plen are the lengths of prefix and path.                        *)
(***************************************************************************)
FsConfigCmp ==
    /\ fs_op = "idle"
    /\ \E dir \in BOOLEAN, prefix \in CmpStrings, path \in CmpStrings,
          stray \in StrayBytes :
          /\ fs_in' = [dir |-> dir, prefix |-> prefix, path |-> path, stray |-> stray]
          /\ fs_out' = [ret |-> fs_config_cmp(dir, prefix, Len(prefix), path,
                                              Len(path), stray)]
    /\ fs_op' = "fs_config_cmp"
    /\ UNCHANGED ueventd_vars

(***************************************************************************)
(* A call of fs_config_generate on a buffer of length bytes, all 0xff.     *)
(***************************************************************************)
FsConfigGenerate ==
    /\ fs_op = "idle"
    /\ \E rule \in GenerateRules, slack \in BufferSlack :
          LET length == GenerateLen(rule) + slack IN
          /\ fs_in' = [pc |-> rule, length |-> length]
          /\ fs_out' = fs_config_generate([k \in 1..length |-> 255], length, rule)
    /\ fs_op' = "fs_config_generate"
    /\ UNCHANGED ueventd_vars

(***************************************************************************)
(* fs_config_open: the names it tries.  A name is the sequence of its      *)
(* bytes; openable is the set of names that open() succeeds on.            *)
(***************************************************************************)
\* "files" and "dirs", the endings of the names in conf
conf_ending(dir) ==
    IF dir THEN << 100, 105, 114, 115 >> ELSE << 102, 105, 108, 101, 115 >>
\* the names in conf up to "fs_config_": sys, ven, oem, odm
conf_stem ==
    << << 47, 115, 121, 115, 116, 101, 109, 47, 101, 116, 99, 47, 102,
          115, 95, 99, 111, 110, 102, 105, 103, 95 >>,
       << 47, 118, 101, 110, 100, 111, 114, 47, 101, 116, 99, 47, 102,
          115, 95, 99, 111, 110, 102, 105, 103, 95 >>,
       << 47, 111, 101, 109, 47, 101, 116, 99, 47, 102, 115, 95, 99,
          111, 110, 102, 105, 103, 95 >>,
       << 47, 111, 100, 109, 47, 101, 116, 99, 47, 102, 115, 95, 99,
          111, 110, 102, 105, 103, 95 >> >>

\* conf[which][dir], which counted from 1
conf_name(which, dir) == conf_stem[which] \o conf_ending(dir)

\* "/system"
SystemDir == << 47, 115, 121, 115, 116, 101, 109 >>

\* the while loop: target_out_path_len after the trailing slashes are
\* counted off
RECURSIVE SlashesOff(_, _)
SlashesOff(target_out_path, target_out_path_len) ==
    IF target_out_path_len > 0 /\ CharAt(target_out_path, target_out_path_len - 1) = 47
    THEN SlashesOff(target_out_path, target_out_path_len - 1)
    ELSE target_out_path_len

\* strcmp(target_out_path + target_out_path_len - strlen("/system"),
\* "/system") = 0: strcmp reads up to the NUL of target_out_path
EndsInSystem(target_out_path, target_out_path_len) ==
    /\ target_out_path_len >= Len(SystemDir)
    /\ SubSeq(target_out_path, target_out_path_len - Len(SystemDir) + 1,
              Len(target_out_path)) = SystemDir

\* target_out_path_len after one "/system" is counted off
SystemOff(target_out_path, target_out_path_len) ==
    IF EndsInSystem(target_out_path, target_out_path_len)
    THEN target_out_path_len - Len(SystemDir)
    ELSE target_out_path_len

\* what asprintf writes to name
PrefixedName(target_out_path, which, dir) ==
    SubSeq(target_out_path, 1,
           SystemOff(target_out_path,
                     SlashesOff(target_out_path, Len(target_out_path))))
        \o conf_name(which, dir)

\* the names given to open(), in order; target_out_path.null is a NULL
\* pointer, asprintf_ok is asprintf(...) # -1
NamesTried(dir, which, target_out_path, asprintf_ok, openable) ==
    LET prefixed ==
            IF ~target_out_path.null /\ target_out_path.str # << >> /\ asprintf_ok
            THEN << PrefixedName(target_out_path.str, which, dir) >>
            ELSE << >>
    IN  IF prefixed # << >> /\ prefixed[1] \in openable
        THEN prefixed
        ELSE prefixed \o << conf_name(which, dir) >>

\* fs_config_open(dir, which, target_out_path): fd >= 0 is opened, and the
\* name the descriptor belongs to
fs_config_open(dir, which, target_out_path, asprintf_ok, openable) ==
    LET tried == NamesTried(dir, which, target_out_path, asprintf_ok, openable)
        last == tried[Len(tried)]
    IN  [tried |-> tried,
         opened |-> last \in openable,
         name |-> IF last \in openable THEN last ELSE << >>]

\* "/o", the directory that holds "system"
OutDir == << 47, 111 >>

\* target_out_path: NULL, "", and OutDir with and without "/system" and
\* trailing slashes; "/system" alone, "/", a string too short for "/system"
TargetOutPaths ==
    { [null |-> TRUE, str |-> << >>] } \cup
    { [null |-> FALSE, str |-> s] :
        s \in { << >>, OutDir, OutDir \o << 47 >>, OutDir \o << 47, 47 >>,
                OutDir \o SystemDir, OutDir \o SystemDir \o << 47 >>,
                OutDir \o SystemDir \o SystemDir, SystemDir, << 47 >>,
                Tail(SystemDir) } }

\* the names that exist: the one under OutDir, the one under
\* OutDir/system, the absolute one, in every combination
Openable(which, dir) ==
    SUBSET { OutDir \o conf_name(which, dir),
             OutDir \o SystemDir \o conf_name(which, dir),
             conf_name(which, dir) }

(***************************************************************************)
(* A call of fs_config_open, as fs_config makes it.                        *)
(***************************************************************************)
FsConfigOpen ==
    /\ fs_op = "idle"
    /\ \E dir \in BOOLEAN, which \in DOMAIN conf, target_out_path \in TargetOutPaths,
          asprintf_ok \in BOOLEAN :
          \E openable \in Openable(which, dir) :
              /\ fs_in' = [dir |-> dir, which |-> which,
                           target_out_path |-> target_out_path,
                           asprintf_ok |-> asprintf_ok, openable |-> openable]
              /\ fs_out' = fs_config_open(dir, which, target_out_path,
                                          asprintf_ok, openable)
    /\ fs_op' = "fs_config_open"
    /\ UNCHANGED ueventd_vars

\* the call returns; the library keeps nothing
FsReturn ==
    /\ fs_op # "idle"
    /\ fs_op' = "idle"
    /\ fs_in' = << >>
    /\ fs_out' = << >>
    /\ UNCHANGED ueventd_vars

FsNext ==
    \/ FsConfig
    \/ FsConfigCmp
    \/ FsConfigGenerate
    \/ FsConfigOpen
    \/ FsReturn

\* the daemon is not part of this specification
UeventdOff ==
    /\ pc = "off"
    /\ marker = FALSE
    /\ marker_at_start = FALSE
    /\ hardware_concurrency = 0
    /\ num_handler_subprocesses_ = 0
    /\ uevent_queue_ = << >>
    /\ subprocess_pids_ = {}
    /\ skip_restorecon = InitialSkipRestorecon
    /\ fork_i = 0
    /\ workers = << >>
    /\ restorecon = "none"
    /\ open_result = "none"
    /\ fatal = ""
    /\ regenerated = FALSE
    /\ socket = << >>
    /\ emitted = 0
    /\ log = << >>

FsInit == FsIdle /\ UeventdOff

SpecFs == FsInit /\ [][FsNext]_vars

(***************************************************************************)
(* Views of a call of fs_config.c.                                         *)
(***************************************************************************)
\* the first n bytes of a string that has them
Take(s, n) == SubSeq(s, 1, n)

\* rule prefix r matches path p (after stripping), by the three cases:
\* directory prefix, glob prefix, exact
Matches(is_directory, r, p) ==
    IF is_directory THEN Len(p) >= Len(r) /\ Take(p, Len(r)) = r
    ELSE IF r # << >> /\ r[Len(r)] = 42
         THEN Len(p) >= Len(r) - 1 /\ Take(p, Len(r) - 1) = Take(r, Len(r) - 1)
         ELSE Len(p) = Len(r) /\ p = r

\* the path of the call in progress, after stripping
CallPath == StripSlash(fs_in.path)

\* the rules of the records of all packed files of the call, damaged or not
PackedRulesOfCall ==
    UNION { { fs_in.files[which].items[k].rule : k \in DOMAIN fs_in.files[which].items } :
            which \in DOMAIN fs_in.files }

\* the prefixes of the built-in table that the call scans
BuiltinPrefixesOfCall ==
    { BuiltinTable(fs_in.dir)[k].prefix : k \in DOMAIN BuiltinTable(fs_in.dir) }
        \ {NullPrefix}

\* the low 12 bits of the catch-all: 0755 for directories, 0644 for files
CatchAllMode(is_directory) == IF is_directory THEN 493 ELSE 420

(***************************************************************************)
(* C16.  fs_config_cmp returns what the three cases say: for a directory,  *)
(* the path is at least as long as the prefix and starts with it (a        *)
(* trailing '*' is an ordinary character); else, for a prefix ending in    *)
(* '*', the path starts with the prefix without its '*' (false for a       *)
(* shorter path); else the path equals the prefix.                         *)
(***************************************************************************)
C16_CmpIsThreeCase ==
    fs_op = "fs_config_cmp" =>
        (fs_out.ret <=> Matches(fs_in.dir, fs_in.prefix, fs_in.path))

\* the glob prefix "a*" matched the longer path "a/"
C16_Witness ==
    /\ fs_op = "fs_config_cmp"
    /\ ~fs_in.dir
    /\ fs_in.prefix = << 97, 42 >>
    /\ fs_in.path = << 97, 47 >>
    /\ fs_out.ret

(***************************************************************************)
(* C14.  fs_config is total: whatever the path, the flag and the packed    *)
(* files (absent, empty, sound or damaged), it returns with uid, gid, mode *)
(* and capabilities set; when no record of a packed file and no built-in   *)
(* prefix matches the path, the result is the catch-all: uid 0, gid 0, no  *)
(* capability, low mode bits 0755 for a directory and 0644 for a file.     *)
(***************************************************************************)
C14_MatchIsTotal ==
    fs_op = "fs_config" =>
        /\ fs_out.uid \in Nat
        /\ fs_out.gid \in Nat
        /\ fs_out.mode \in Nat
        /\ fs_out.capabilities \subseteq 0..63
        /\ (\A r \in PackedRulesOfCall : ~Matches(fs_in.dir, r.prefix, CallPath))
            /\ (\A r \in BuiltinPrefixesOfCall : ~Matches(fs_in.dir, r, CallPath))
            => /\ fs_out.uid = 0
               /\ fs_out.gid = 0
               /\ fs_out.capabilities = {}
               /\ fs_out.mode % ModeBits = CatchAllMode(fs_in.dir)

\* nothing matched "zz", with a damaged packed file among those read
C14_Witness ==
    /\ fs_op = "fs_config"
    /\ fs_in.path = << 122, 122 >>
    /\ fs_out.aloge # << >>
    /\ fs_out.uid = 0
    /\ fs_out.mode % ModeBits = CatchAllMode(fs_in.dir)

(***************************************************************************)
(* C15.  First match wins over the layered rules: the result holds the     *)
(* fields of the first rule that matches when the rules are taken as the   *)
(* records of the system file, then vendor, oem, odm (each in file order,  *)
(* as far as the file can be read), then the built-in table in the order   *)
(* of its declaration, whose last entry matches every path.                *)
(***************************************************************************)
\* the rules of the records of a packed file that can be read
RulesOf(file) == [k \in DOMAIN Readable(file.items) |-> Readable(file.items)[k].rule]

\* the layered rules of a call with these packed files
LayeredRules(files, is_directory) ==
    RulesOf(files[1]) \o RulesOf(files[2]) \o RulesOf(files[3]) \o RulesOf(files[4])
        \o BuiltinTable(is_directory)

RECURSIVE FirstMatching(_, _, _, _)
\* the first of the rules, from the k-th on, that matches path p
FirstMatching(rules, k, is_directory, p) ==
    IF rules[k].prefix = NullPrefix \/ Matches(is_directory, rules[k].prefix, p)
    THEN rules[k]
    ELSE FirstMatching(rules, k + 1, is_directory, p)

\* the rule that the call in progress has to return
RuleOfCall == FirstMatching(LayeredRules(fs_in.files, fs_in.dir), 1, fs_in.dir, CallPath)

\* uid, gid, capabilities and the low mode bits are those of the rule
HasFieldsOf(out, rule) ==
    /\ out.uid = rule.uid
    /\ out.gid = rule.gid
    /\ out.capabilities = rule.capabilities
    /\ out.mode % ModeBits = rule.mode % ModeBits

C15_FirstMatchWins ==
    fs_op = "fs_config" => HasFieldsOf(fs_out, RuleOfCall)

\* "ab" is matched by two records of the system file and by the vendor file;
\* the first record of the system file is returned
C15_Witness ==
    /\ fs_op = "fs_config"
    /\ ~fs_in.dir
    /\ fs_in.path = << 47, 97, 98 >>
    /\ fs_in.files[1] = Present(<< Sound(RuleExact), Sound(RuleGlob) >>)
    /\ fs_in.files[2] = Present(<< Sound(RuleHigh) >>)
    /\ fs_out.uid = RuleExact.uid

(***************************************************************************)
(* C17.  On a match the returned mode keeps the bits of the caller's mode  *)
(* above the low 12 and its low 12 bits are the mode of the matched rule,  *)
(* for every mode of the caller and every 16-bit mode of a packed record;  *)
(* uid, gid and capabilities are those of the rule.                        *)
(***************************************************************************)
C17_ModeKeepsCallerHighBits ==
    fs_op = "fs_config" =>
        /\ fs_out.mode \div ModeBits = fs_in.mode \div ModeBits
        /\ fs_out.mode % ModeBits = RuleOfCall.mode
        /\ fs_out.uid = RuleOfCall.uid
        /\ fs_out.gid = RuleOfCall.gid
        /\ fs_out.capabilities = RuleOfCall.capabilities

(***************************************************************************)
(* C18.  A packed file with a corrupt record (declared length not above    *)
(* the header size, prefix read short, prefix without NUL) is skipped:     *)
(* the result is that of the same call with the file absent, wherever the  *)
(* corrupt record is in the file.                                          *)
(***************************************************************************)
\* the damage that the statement calls corrupt
CorruptDamage == DamageAnywhere \cup {"prefix_short"}

IsCorrupt(file) == \E k \in DOMAIN file.items : file.items[k].damage \in CorruptDamage

\* the packed files of the call, the corrupt ones taken away
WithoutCorrupt(files) ==
    [which \in DOMAIN files |-> IF IsCorrupt(files[which]) THEN Absent ELSE files[which]]

\* the packed files of the call, each ending in front of its first damaged record
CutAtDamage(files) == [which \in DOMAIN files |-> Cut(files[which])]

\* the four values fs_config stores
Stored(out) == << out.uid, out.gid, out.mode, out.capabilities >>

C18_CorruptFileAsIfAbsent ==
    fs_op = "fs_config" =>
        Stored(fs_out) = Stored(fs_config(fs_in.path, fs_in.dir,
                                          OpenFiles(WithoutCorrupt(fs_in.files)),
                                          fs_in.mode, fs_in.stray))

(***************************************************************************)
(* C18, as the code has it.  A packed file with a corrupt record is given  *)
(* up at that record, with an error message: the result is that of the     *)
(* same call with the file ending in front of the corrupt record.  A       *)
(* record in front of it that matches is returned; records behind it are   *)
(* never read; if none in front matches, the next file is read.            *)
(***************************************************************************)
C18_CorruptFileCutAtRecord ==
    fs_op = "fs_config" =>
        /\ Stored(fs_out) = Stored(fs_config(fs_in.path, fs_in.dir,
                                             OpenFiles(CutAtDamage(fs_in.files)),
                                             fs_in.mode, fs_in.stray))
        /\ \A which \in DOMAIN fs_in.files :
              (\E m \in DOMAIN fs_out.aloge : fs_out.aloge[m].conf = conf[which])
                  => IsCorrupt(fs_in.files[which])

\* the vendor file has a record for "a*" in front of a corrupt one; for "a"
\* the record in front is returned, and with the file absent it would not be
C18_Witness ==
    /\ fs_op = "fs_config"
    /\ ~fs_in.dir
    /\ fs_in.path = << 97 >>
    /\ fs_in.files[2] = Present(<< Sound(RuleGlob), Damaged(RuleExact, "no_nul") >>)
    /\ fs_in.files[4] = Absent
    /\ fs_out.uid = RuleGlob.uid

(***************************************************************************)
(* Views of a call of fs_config_generate.                                  *)
(***************************************************************************)
\* the rule that fs_config reads from a record it has read
RuleOfRecord(r) ==
    [mode |-> FromHeader(r.header, 0, << >>).mode,
     uid |-> FromHeader(r.header, 0, << >>).uid,
     gid |-> FromHeader(r.header, 0, << >>).gid,
     capabilities |-> FromHeader(r.header, 0, << >>).capabilities,
     prefix |-> r.prefix]

\* the buffer is read the way fs_config reads a packed file, and a record is found
Decodes(buffer) == ReadRecord(buffer, 0).status = "record"

\* the rule found
Decoded(buffer) == RuleOfRecord(ReadRecord(buffer, 0))

\* every byte of the buffer is the 0xff it held before the call
Untouched(buffer) == SelectSeq(buffer, LAMBDA b : b # 255) = << >>

\* the buffer of the call is at least as long as the record of its rule
BufferSuffices == fs_in.length >= GenerateLen(fs_in.pc)

\* the values a 16-bit field can hold
Uint16 == 0..UINT16_MAX

(***************************************************************************)
(* C19.  Round trip: for every rule whose prefix length plus the header    *)
(* size is at most UINT16_MAX, fs_config_generate succeeds on a buffer     *)
(* that is large enough, and reading the bytes back as fs_config reads a   *)
(* record gives the rule's mode, uid, gid, capabilities and prefix.        *)
(***************************************************************************)
C19_RoundTripUpToUint16 ==
    (/\ fs_op = "fs_config_generate"
     /\ Len(fs_in.pc.prefix) + HeaderSize <= UINT16_MAX
     /\ BufferSuffices)
        => /\ fs_out.ret = GenerateLen(fs_in.pc)
           /\ Decodes(fs_out.buffer)
           /\ Decoded(fs_out.buffer) = fs_in.pc

(***************************************************************************)
(* C19, as the code has it.  fs_config_generate succeeds exactly when the  *)
(* record length, header + prefix + NUL rounded up to a multiple of 8, is  *)
(* at most UINT16_MAX and fits the buffer; otherwise it returns -ENOSPC    *)
(* and leaves the buffer alone.  On success the bytes read back give the   *)
(* prefix and the capabilities of the rule and its mode, uid and gid       *)
(* modulo 2^16: the rule itself when these three fit in 16 bits.           *)
(***************************************************************************)
C19_RoundTripWithinFormat ==
    fs_op = "fs_config_generate" =>
        IF GenerateLen(fs_in.pc) <= UINT16_MAX /\ BufferSuffices
        THEN /\ fs_out.ret = GenerateLen(fs_in.pc)
             /\ Decodes(fs_out.buffer)
             /\ Decoded(fs_out.buffer).prefix = fs_in.pc.prefix
             /\ Decoded(fs_out.buffer).capabilities = fs_in.pc.capabilities
             /\ Decoded(fs_out.buffer).mode = fs_in.pc.mode % (UINT16_MAX + 1)
             /\ Decoded(fs_out.buffer).uid = fs_in.pc.uid % (UINT16_MAX + 1)
             /\ Decoded(fs_out.buffer).gid = fs_in.pc.gid % (UINT16_MAX + 1)
             /\ ({fs_in.pc.mode, fs_in.pc.uid, fs_in.pc.gid} \subseteq Uint16
                    => Decoded(fs_out.buffer) = fs_in.pc)
        ELSE /\ fs_out.ret = 0 - ENOSPC
             /\ Untouched(fs_out.buffer)

\* the longest prefix that has a record, with a capability above bit 31,
\* came back
C19_Witness ==
    /\ fs_op = "fs_config_generate"
    /\ Len(fs_in.pc.prefix) = UINT16_MAX - HeaderSize - 8
    /\ fs_out.ret = UINT16_MAX - 7
    /\ Decoded(fs_out.buffer) = fs_in.pc

(***************************************************************************)
(* C20.  Every record fs_config_generate writes has a length that is a     *)
(* multiple of 8 and above the header size, that is the value returned and *)
(* the value of its len field; it holds the prefix, then at least one NUL, *)
(* and nothing but zero bytes up to its end.                               *)
(***************************************************************************)
C20_RecordIsAlignedAndPadded ==
    (fs_op = "fs_config_generate" /\ fs_out.ret >= 0) =>
        /\ fs_out.ret % 8 = 0
        /\ fs_out.ret > HeaderSize
        /\ fs_out.ret <= fs_in.length
        /\ fs_out.ret = get2LE(SubSeq(fs_out.buffer, 1, 2))
        /\ SubSeq(fs_out.buffer, HeaderSize + 1, HeaderSize + Len(fs_in.pc.prefix))
              = fs_in.pc.prefix
        /\ HeaderSize + Len(fs_in.pc.prefix) + 1 <= fs_out.ret
        /\ \A k \in (HeaderSize + Len(fs_in.pc.prefix) + 1)..fs_out.ret :
              fs_out.buffer[k] = 0
        /\ \A k \in (fs_out.ret + 1)..Len(fs_out.buffer) : fs_out.buffer[k] = 255

\* a prefix of 8 bytes: the NUL opens a new block of 8, padded with 7 zeros,
\* in a buffer that is longer than the record
C20_Witness ==
    /\ fs_op = "fs_config_generate"
    /\ Len(fs_in.pc.prefix) = 8
    /\ fs_out.ret = 32
    /\ fs_in.length > fs_out.ret

(***************************************************************************)
(* C21.  fs_config_generate returns -ENOSPC exactly when the record        *)
(* length, rounded up to a multiple of 8, is above UINT16_MAX or above the *)
(* length of the buffer, and then the buffer is as it was; in every other  *)
(* case it returns a positive length.                                      *)
(***************************************************************************)
\* the record length of the rule, computed from the layout: header, prefix,
\* NUL, rounded up to the next multiple of 8
AlignedSize(rule) ==
    CHOOSE n \in (HeaderSize + Len(rule.prefix) + 1)..(HeaderSize + Len(rule.prefix) + 8) :
        n % 8 = 0

C21_ErrorIffTooLong ==
    fs_op = "fs_config_generate" =>
        /\ fs_out.ret = 0 - ENOSPC
              <=> (AlignedSize(fs_in.pc) > UINT16_MAX \/ AlignedSize(fs_in.pc) > fs_in.length)
        /\ fs_out.ret = 0 - ENOSPC
              => /\ Len(fs_out.buffer) = fs_in.length
                 /\ Untouched(fs_out.buffer)
        /\ fs_out.ret # 0 - ENOSPC => fs_out.ret > 0

\* rejected for its length in a buffer that is long enough, and rejected
\* for the buffer alone
C21_Witness ==
    /\ fs_op = "fs_config_generate"
    /\ fs_out.ret = 0 - ENOSPC
    /\ AlignedSize(fs_in.pc) > UINT16_MAX
    /\ fs_in.length >= AlignedSize(fs_in.pc)

(***************************************************************************)
(* C22.  fs_config strips exactly one leading '/': a path that does not    *)
(* start with '/' gets the result of the same path with '/' in front; a    *)
(* path that starts with '/' is matched as what follows its first byte,    *)
(* a second '/' included.                                                  *)
(***************************************************************************)
\* the result of the call in progress had its path been this one
ResultFor(path) ==
    Stored(fs_config(path, fs_in.dir, OpenFiles(fs_in.files), fs_in.mode, fs_in.stray))

\* the first of the layered rules of the call that matches the string p
RuleFor(p) == FirstMatching(LayeredRules(fs_in.files, fs_in.dir), 1, fs_in.dir, p)

C22_OneLeadingSlashStripped ==
    fs_op = "fs_config" =>
        IF fs_in.path # << >> /\ fs_in.path[1] = 47
        THEN HasFieldsOf(fs_out, RuleFor(SubSeq(fs_in.path, 2, Len(fs_in.path))))
        ELSE /\ Stored(fs_out) = ResultFor(<< 47 >> \o fs_in.path)
             /\ HasFieldsOf(fs_out, RuleFor(fs_in.path))

\* "//ab" is matched as "/ab": the record for "ab", which "/ab" gets, is
\* not returned
C22_Witness ==
    /\ fs_op = "fs_config"
    /\ ~fs_in.dir
    /\ fs_in.path = << 47, 47, 97, 98 >>
    /\ fs_in.files[1] = Present(<< Sound(RuleExact), Sound(RuleGlob) >>)
    /\ fs_out.uid = 0
    /\ ResultFor(<< 47, 97, 98 >>)[1] = RuleExact.uid

(***************************************************************************)
(* Views of the calls of the main process.                                 *)
(***************************************************************************)
\* the position in the log of the return of restorecon, 0 when it is not there
RestoreconAt ==
    IF \E k \in 1..Len(log) : log[k].op = "restorecon"
    THEN CHOOSE k \in 1..Len(log) : log[k].op = "restorecon"
    ELSE 0

\* the calls the main process made in the regeneration callback: with a cold
\* boot, those in front of the return of restorecon
RegenerateLog ==
    IF marker_at_start THEN << >>
    ELSE IF RestoreconAt = 0 THEN log
    ELSE SubSeq(log, 1, RestoreconAt - 1)

\* the calls the main process made in the Poll callback
PollLog ==
    IF marker_at_start THEN log
    ELSE IF RestoreconAt = 0 THEN << >>
    ELSE SubSeq(log, RestoreconAt + 1, Len(log))

\* regeneration ends in this step
RegenerateEnds == pc = "regen" /\ pc' # "regen"

(***************************************************************************)
(* C23.  After regeneration the queue holds the uevents the listener gave  *)
(* to the callback, each once, in the order given, those of the firmware   *)
(* subsystem included; each was passed to the firmware handler before it   *)
(* was appended; the callback never asks the listener to stop, so          *)
(* regeneration ends only with the socket drained.                         *)
(***************************************************************************)
C23_QueueIsWhatWasDelivered ==
    /\ [](/\ Len(RegenerateLog) = 2 * Len(uevent_queue_)
          /\ \A k \in 1..Len(uevent_queue_) :
                /\ RegenerateLog[2 * k - 1] = FirmwareCall(uevent_queue_[k])
                /\ RegenerateLog[2 * k] = QueueCall(uevent_queue_[k])
          /\ \A j, k \in 1..Len(uevent_queue_) :
                j < k => uevent_queue_[j].id < uevent_queue_[k].id
          /\ pc \in AfterRegenerate =>
                \A id \in 1..emitted : id \in QueueIds \/ id \in SocketIds)
    /\ [][RegenerateEnds => socket = << >> /\ socket' = << >>]_vars
    /\ [][pc # "regen" => uevent_queue_' = uevent_queue_]_vars

\* two uevents were queued, one of the firmware subsystem, and the phase
\* is over
C23_Witness ==
    /\ pc = "fork"
    /\ Len(uevent_queue_) = 2
    /\ \E k \in 1..2 : uevent_queue_[k].subsystem = "firmware"

(***************************************************************************)
(* C24.  The queue is complete before the first fork: nothing is appended  *)
(* to it once a worker exists, so every worker and the parent hold the     *)
(* same queue, in length and in order.                                     *)
(***************************************************************************)
\* a worker exists and the queue of the parent is changed
QueueChangesAfterFork == DOMAIN workers # {} /\ uevent_queue_' # uevent_queue_

C24_QueueFrozenBeforeFork ==
    /\ [](\A w \in DOMAIN workers : workers[w].uevent_queue_ = uevent_queue_)
    /\ [][~QueueChangesAfterFork]_vars

\* two workers hold a queue of two uevents while a third uevent waits in
\* the socket or has not been sent
C24_Witness ==
    /\ Cardinality(DOMAIN workers) >= 2
    /\ Len(uevent_queue_) >= 2
    /\ \A w \in DOMAIN workers : Len(workers[w].uevent_queue_) >= 2

(***************************************************************************)
(* C25.  The parent starts restorecon of /sys only when all N workers are  *)
(* forked and reaps none before restorecon has returned and the flag       *)
(* skip_restorecon of its handler is false; workers handle uevents while   *)
(* restorecon runs.                                                        *)
(***************************************************************************)
C25_RestoreconBetweenForkAndReap ==
    /\ restorecon # "none" =>
          /\ DOMAIN workers = 0..(num_handler_subprocesses_ - 1)
          /\ fork_i = num_handler_subprocesses_
    /\ (pc = "wait" \/ \E w \in DOMAIN workers : workers[w].state = "reaped") =>
          /\ restorecon = "done"
          /\ ~skip_restorecon
          /\ RestoreconAt # 0

\* restorecon runs, one worker has handled a uevent and another runs
C25_Witness ==
    /\ restorecon = "running"
    /\ \E v, w \in DOMAIN workers :
          /\ v # w
          /\ workers[v].calls # << >>
          /\ workers[w].state = "running"

(***************************************************************************)
(* C26.  In steady state the callback handles the uevents one at a time in *)
(* the order of their arrival: for each the firmware handler, then the     *)
(* device handler, both in the main process, before the next uevent is     *)
(* read; the callback always asks the listener to continue.                *)
(***************************************************************************)
\* the Poll loop is left
PollEnds == pc = "poll" /\ pc' # "poll"

C26_SteadyStateOneAtATime ==
    /\ [](/\ Len(PollLog) % 2 = 0
          /\ \A k \in 1..(Len(PollLog) \div 2) :
                /\ PollLog[2 * k - 1].op = "HandleFirmwareEvent"
                /\ PollLog[2 * k].op = "HandleDeviceEvent"
                /\ PollLog[2 * k].uevent = PollLog[2 * k - 1].uevent
                /\ PollLog[2 * k - 1].proc = Main
                /\ PollLog[2 * k].proc = Main
          /\ \A j, k \in 1..(Len(PollLog) \div 2) :
                j < k => PollLog[2 * j].uevent.id < PollLog[2 * k].uevent.id
          /\ \A k \in 1..Len(socket) :
                \A j \in 1..Len(PollLog) : PollLog[j].uevent.id < socket[k].id)
    /\ [][~PollEnds]_vars

\* two uevents were handled in the Poll loop
C26_Witness ==
    /\ pc = "poll"
    /\ Len(PollLog) >= 4

(***************************************************************************)
(* C27.  A worker that is not ended from outside handles every uevent of   *)
(* its share and exits with status 0, whether or not the handler failed on *)
(* one of them; a failure of the handler never makes the parent abort.     *)
(***************************************************************************)
\* the uevents at the queue indices i with i mod N = w, in order
ShareOfWorker(w) ==
    SelectSeq(uevent_queue_,
              LAMBDA u : (QueueIndex(u) % num_handler_subprocesses_) = w)

\* the uevents the worker has called the handler on, in order
HandledBy(w) == [k \in 1..Len(workers[w].calls) |-> workers[w].calls[k].uevent]

C27_WorkerFinishesShareAndExitsZero ==
    /\ \A w \in DOMAIN workers :
          (workers[w].state # "running" /\ ~workers[w].died) =>
              /\ HandledBy(w) = ShareOfWorker(w)
              /\ workers[w].status = "exit_success"
    /\ (pc = "aborted" /\ fatal # "fork() failed!") =>
          \E w \in DOMAIN workers : workers[w].died

\* a worker exited with 0 after two calls, the handler having failed on the first
C27_Witness ==
    \E w \in DOMAIN workers :
        /\ workers[w].status = "exit_success"
        /\ Len(workers[w].calls) >= 2
        /\ workers[w].calls[1].failed

(***************************************************************************)
(* C28.  At a corrupt record of a packed file the matcher stops reading    *)
(* that file and goes on with the next file, or with the built-in table    *)
(* after the last: a record in front of the corrupt one (or of an earlier  *)
(* file) that matches is the result; otherwise the result is that of the   *)
(* files after this one and the built-in table, so that neither the        *)
(* corrupt record nor a record behind it is applied.                       *)
(***************************************************************************)
\* the rules read up to the corrupt record of files[which]
RulesUpTo(files, which) ==
    IF which = 1 THEN RulesOf(files[1])
    ELSE IF which = 2 THEN RulesOf(files[1]) \o RulesOf(files[2])
    ELSE IF which = 3 THEN RulesOf(files[1]) \o RulesOf(files[2]) \o RulesOf(files[3])
    ELSE RulesOf(files[1]) \o RulesOf(files[2]) \o RulesOf(files[3]) \o RulesOf(files[4])

\* the packed files after files[which] alone
FilesAfter(files, which) ==
    [j \in DOMAIN files |-> IF j <= which THEN Absent ELSE files[j]]

\* those of the rules that match path p, in order
MatchingOf(rules, is_directory, p) ==
    SelectSeq(rules, LAMBDA r : Matches(is_directory, r.prefix, p))

C28_CorruptRecordEndsItsFile ==
    fs_op = "fs_config" =>
        \A which \in DOMAIN fs_in.files :
            IsCorrupt(fs_in.files[which]) =>
                IF MatchingOf(RulesUpTo(fs_in.files, which), fs_in.dir, CallPath) # << >>
                THEN /\ HasFieldsOf(fs_out,
                            MatchingOf(RulesUpTo(fs_in.files, which), fs_in.dir, CallPath)[1])
                     /\ \A m \in DOMAIN fs_out.aloge : fs_out.aloge[m].conf # conf[which]
                ELSE /\ Cardinality({ m \in DOMAIN fs_out.aloge :
                                        fs_out.aloge[m].conf = conf[which] }) = 1
                     /\ Stored(fs_out) =
                            Stored(fs_config(fs_in.path, fs_in.dir,
                                             OpenFiles(FilesAfter(fs_in.files, which)),
                                             fs_in.mode, fs_in.stray))

\* the corrupt record of the vendor file and the record behind it both fit
\* "ab"; the matcher went on and the first record of the odm file is returned
C28_Witness ==
    /\ fs_op = "fs_config"
    /\ ~fs_in.dir
    /\ fs_in.path = << 47, 97, 98 >>
    /\ fs_in.files[2] = Present(<< Damaged(RuleHigh, "len_zero"), Sound(RuleGlob) >>)
    /\ fs_in.files[4] = Present(<< Sound(RuleExact), Sound(RuleGlob) >>)
    /\ fs_out.uid = RuleExact.uid
    /\ fs_out.aloge # << >>

(***************************************************************************)
(* C29.  The matcher does not depend on the store: when every packed file  *)
(* is the concatenation of the records fs_config_generate writes for a     *)
(* list of rules with non-empty prefixes and fields that fit the record,   *)
(* the call stores the uid, gid, mode and capabilities that the first      *)
(* match over the same rules held in memory stores (the for loop of        *)
(* fs_config over a table, with fs_config_cmp), and logs no corruption.    *)
(***************************************************************************)
\* the rule has a non-empty prefix without NUL and fits the record format
FitsRecord(rule) ==
    /\ rule.prefix # << >>
    /\ \A k \in DOMAIN rule.prefix : rule.prefix[k] # 0
    /\ rule.mode \in Uint16 /\ rule.uid \in Uint16 /\ rule.gid \in Uint16
    /\ rule.capabilities \subseteq 0..63
    /\ GenerateLen(rule) <= UINT16_MAX

\* every record of the file is as generated from a rule that fits
EncodedFromRules(file) ==
    \A k \in DOMAIN file.items :
        file.items[k].damage = "none" /\ FitsRecord(file.items[k].rule)

\* the rules the file was generated from, in order
ListOf(file) == [k \in DOMAIN file.items |-> file.items[k].rule]

\* the lists of the four packed files, then the built-in table
MemoryTable(files, dir) ==
    ListOf(files[1]) \o ListOf(files[2]) \o ListOf(files[3]) \o ListOf(files[4])
        \o BuiltinTable(dir)

RECURSIVE MemoryScan(_, _, _, _, _, _)
\* for (pc = table; pc->prefix; pc++) if (fs_config_cmp(...)) break;
MemoryScan(table, k, dir, path, plen, stray) ==
    IF table[k].prefix = NullPrefix THEN table[k]
    ELSE IF fs_config_cmp(dir, table[k].prefix, Len(table[k].prefix), path, plen, stray)
    THEN table[k]
    ELSE MemoryScan(table, k + 1, dir, path, plen, stray)

\* first match over the table held in memory, and what is stored from it
MemoryMatch(table, path, dir, mode, stray) ==
    FromBuiltin(MemoryScan(table, 1, dir, StripSlash(path), Len(StripSlash(path)), stray),
                mode, << >>)

C29_MatcherIsStoreAgnostic ==
    (/\ fs_op = "fs_config"
     /\ \A which \in DOMAIN fs_in.files : EncodedFromRules(fs_in.files[which])) =>
        /\ Stored(fs_out) = Stored(MemoryMatch(MemoryTable(fs_in.files, fs_in.dir),
                                               fs_in.path, fs_in.dir, fs_in.mode,
                                               fs_in.stray))
        /\ fs_out.aloge = << >>

\* "abc" passes the record for "ab" and takes the one for "a*" behind it, in
\* the second file read; the mode of the caller has bits above the low 12
C29_Witness ==
    /\ fs_op = "fs_config"
    /\ ~fs_in.dir
    /\ fs_in.path = << 97, 98, 99 >>
    /\ fs_in.mode = 33279
    /\ fs_in.files[1] = Present(<< Sound(RuleHigh) >>)
    /\ fs_in.files[2] = Present(<< Sound(RuleExact), Sound(RuleGlob) >>)
    /\ fs_out.uid = RuleGlob.uid
    /\ fs_out.mode = 32768 + RuleGlob.mode

(***************************************************************************)
(* C30.  The built-in table of directories starts with the most specific   *)
(* path: no entry's prefix is a proper string prefix of the prefix of a    *)
(* later entry, so no entry that matches the path of a call is shadowed    *)
(* by an earlier, less specific one.                                       *)
(***************************************************************************)
\* r is a string prefix of s and shorter
IsProperPrefix(r, s) == Len(r) < Len(s) /\ Take(s, Len(r)) = r

\* the entries of android_dirs in front of the terminating one
DirEntries == { k \in DOMAIN android_dirs : android_dirs[k].prefix # NullPrefix }

\* entry k of android_dirs matches the path of the call in progress
DirEntryMatches(k) ==
    fs_config_cmp(TRUE, android_dirs[k].prefix, Len(android_dirs[k].prefix),
                  CallPath, Len(CallPath), fs_in.stray)

C30_DirsMostSpecificFirst ==
    (fs_op = "fs_config" /\ fs_in.dir) =>
        \A k \in DirEntries :
            DirEntryMatches(k) =>
                \A j \in DirEntries :
                    j < k => ~IsProperPrefix(android_dirs[j].prefix, android_dirs[k].prefix)

(***************************************************************************)
(* C31.  With no packed file, a call for a directory stores the uid, gid,  *)
(* mode and capabilities of the entry of android_dirs with the longest     *)
(* prefix that matches the path, and those of the last entry only when no  *)
(* prefix matches.  Checked for the path of the call and for every path    *)
(* that is the prefix of an entry or lies below it.                        *)
(***************************************************************************)
\* no packed file can be opened
NoFiles == [which \in DOMAIN conf |-> Absent]

\* the entries of android_dirs whose prefix matches the stripped path p
DirsMatching(p, stray) ==
    { k \in DirEntries :
        fs_config_cmp(TRUE, android_dirs[k].prefix, Len(android_dirs[k].prefix),
                      p, Len(p), stray) }

\* the entry with the longest prefix that matches p, the last entry if none does
MostSpecificDir(p, stray) ==
    IF DirsMatching(p, stray) = {} THEN android_dirs[Len(android_dirs)]
    ELSE android_dirs[CHOOSE k \in DirsMatching(p, stray) :
                        \A j \in DirsMatching(p, stray) :
                            Len(android_dirs[j].prefix) <= Len(android_dirs[k].prefix)]

\* a call for directory path with no packed file stores the most specific entry
DirCallIsMostSpecific(path, mode, stray) ==
    Stored(fs_config(path, TRUE, OpenFiles(NoFiles), mode, stray))
        = Stored(FromBuiltin(MostSpecificDir(StripSlash(path), stray), mode, << >>))

\* "/x"
BelowSuffix == << 47, 120 >>

C31_DirFirstMatchIsMostSpecific ==
    (fs_op = "fs_config" /\ fs_in.dir /\ fs_in.files = NoFiles) =>
        /\ Stored(fs_out) = Stored(FromBuiltin(MostSpecificDir(CallPath, fs_in.stray),
                                               fs_in.mode, << >>))
        /\ DirsMatching(CallPath, fs_in.stray) = {}
              => Stored(fs_out) = << 0, 0, NewMode(fs_in.mode, 493), {} >>
        /\ \A k \in DirEntries :
              /\ DirCallIsMostSpecific(android_dirs[k].prefix, fs_in.mode, fs_in.stray)
              /\ DirCallIsMostSpecific(android_dirs[k].prefix \o BelowSuffix,
                                       fs_in.mode, fs_in.stray)

\* "data/app-private" stops on the entry "data/app" while "data/app-private"
\* is the longest that matches; both hold the same values
C31_Witness ==
    /\ fs_op = "fs_config"
    /\ fs_in.dir
    /\ fs_in.files = NoFiles
    /\ CallPath = << 100, 97, 116, 97, 47, 97, 112, 112, 45, 112, 114, 105, 118, 97, 116, 101 >>
    /\ Cardinality(DirsMatching(CallPath, fs_in.stray)) = 3
    /\ fs_out.uid = MostSpecificDir(CallPath, fs_in.stray).uid
    /\ fs_out.uid # 0

(***************************************************************************)
(* C32.  While the parent reaps, subprocess_pids_ only shrinks, and only   *)
(* by the pid of a forked worker that exited with status 0 and is reaped   *)
(* in that step; a turn of the loop in which waitpid fails or returns a    *)
(* pid that is not in the set changes neither the set nor the fatal        *)
(* message and does not abort; a pid once removed is not in the set again. *)
(***************************************************************************)
\* waitpid returns worker w in this step
ReapStep(w) == workers[w].state = "zombie" /\ workers'[w].state = "reaped"

\* the step removes exactly the pid of a worker it reaps with status 0
ErasesReapedWorker ==
    \E w \in DOMAIN workers :
        /\ ReapStep(w)
        /\ workers[w].status = "exit_success"
        /\ workers[w].pid \in subprocess_pids_
        /\ subprocess_pids_' = subprocess_pids_ \ {workers[w].pid}

\* a step taken while the parent is in the loop of WaitForSubProcesses
ReapingStepIsSound ==
    pc = "wait" =>
        /\ subprocess_pids_' \subseteq subprocess_pids_
        /\ subprocess_pids_' # subprocess_pids_ => ErasesReapedWorker
        /\ (\A w \in DOMAIN workers : ~ReapStep(w)) =>
              /\ subprocess_pids_' = subprocess_pids_
              /\ fatal' = fatal
              /\ pc' # "aborted"

C32_PidsOnlyShrinkByCleanExit ==
    /\ [][ReapingStepIsSound]_vars
    /\ [](\A w \in DOMAIN workers :
             (workers[w].state = "reaped" /\ workers[w].status = "exit_success")
                 => workers[w].pid \notin subprocess_pids_)
    /\ [](subprocess_pids_ \subseteq { workers[w].pid : w \in DOMAIN workers })

\* one worker was reaped and its pid removed, another is outstanding, and
\* waitpid can fail or return the child of the firmware handler
C32_Witness ==
    /\ pc = "wait"
    /\ subprocess_pids_ # {}
    /\ \E w \in DOMAIN workers :
          workers[w].state = "reaped" /\ workers[w].pid \notin subprocess_pids_
    /\ ENABLED WaitForeign
    /\ ENABLED WaitpidFails

(***************************************************************************)
(* C33.  A cold boot creates exactly N worker processes: a child never     *)
(* returns into the fork loop, so the only processes besides the parent    *)
(* are the N children the parent forked, numbered 0..N-1 with N distinct   *)
(* pids that the parent holds in subprocess_pids_ when the fork loop is    *)
(* done; a worker only calls the device handler and then is a zombie or    *)
(* reaped; restorecon, marker and poll loop are the parent's.              *)
(***************************************************************************)
\* the pids of the processes that were forked
WorkerPids == { workers[w].pid : w \in DOMAIN workers }

\* the fork loop of the parent ran to its end
ForkLoopRan == restorecon # "none"

C33_ExactlyNWorkers ==
    /\ DOMAIN workers \subseteq 0..(num_handler_subprocesses_ - 1)
    /\ DOMAIN workers = 0..(fork_i - 1)
    /\ Cardinality(WorkerPids) = Cardinality(DOMAIN workers)
    /\ \A w \in DOMAIN workers :
          /\ workers[w].state \in {"running", "zombie", "reaped"}
          /\ workers[w].total_processes = num_handler_subprocesses_
    /\ ForkLoopRan =>
          /\ Cardinality(DOMAIN workers) = num_handler_subprocesses_
          /\ Cardinality(WorkerPids) = num_handler_subprocesses_
          /\ subprocess_pids_ \subseteq WorkerPids
          /\ pc = "fork" => subprocess_pids_ = WorkerPids
    /\ \A k \in 1..Len(log) : log[k].proc = Main

\* both workers of a cold boot with N = 2 have left UeventHandlerMain, one
\* after a call of the handler, and there are still two processes
C33_Witness ==
    /\ num_handler_subprocesses_ = 2
    /\ ForkLoopRan
    /\ \A w \in DOMAIN workers : workers[w].state = "zombie" /\ ~workers[w].died
    /\ \E w \in DOMAIN workers : workers[w].calls # << >>
    /\ Cardinality(WorkerPids) = 2

(***************************************************************************)
(* C34.  Cold boot completes whenever it can: in a run that starts without *)
(* the marker, in which no fork fails and no worker ends abnormally, the   *)
(* parent under fair scheduling eventually has reaped all workers, has     *)
(* created the marker and is in the poll loop; and while a worker runs the *)
(* parent has not created the marker and is not in the poll loop.          *)
(***************************************************************************)
\* the run cannot complete its cold boot, or has none to do
ColdBootCannotComplete ==
    \/ marker_at_start
    \/ fatal = "fork() failed!"
    \/ \E w \in DOMAIN workers : workers[w].died

\* no marker and no poll loop while a worker of the cold boot runs
WaitsForRunningWorkers ==
    (\E w \in DOMAIN workers : workers[w].state = "running") =>
        /\ pc \in {"fork", "restorecon", "wait", "aborted"}
        /\ open_result = "none"
        /\ marker = marker_at_start
        /\ pc = "aborted" =>
              \/ fatal = "fork() failed!"
              \/ \E w \in DOMAIN workers : workers[w].died

C34_ColdBootCompletesWithMarker ==
    /\ <>(ColdBootCannotComplete \/ (pc = "poll" /\ AllWorkersReapedOk /\ marker))
    /\ []((pc = "poll" /\ ~ColdBootCannotComplete) => (AllWorkersReapedOk /\ marker))
    /\ []WaitsForRunningWorkers

(***************************************************************************)
(* C34, amended.  In such a run the parent eventually has reaped all       *)
(* workers, has called open(COLDBOOT_DONE, O_CREAT) and is in the poll     *)
(* loop; the marker exists then exactly when that open succeeded.  While a *)
(* worker runs the parent has not called open and is not in the poll loop: *)
(* it forks, runs restorecon or waits, or it has aborted because a fork    *)
(* failed or another worker ended abnormally.                              *)
(***************************************************************************)
ColdBootCompleted ==
    /\ pc = "poll"
    /\ AllWorkersReapedOk
    /\ subprocess_pids_ = {}
    /\ restorecon = "done"
    /\ open_result # "none"
    /\ marker <=> open_result = "ok"

C34_ColdBootCompletesWithMarkerAttempt ==
    /\ <>(ColdBootCannotComplete \/ ColdBootCompleted)
    /\ []WaitsForRunningWorkers

\* the cold boot of two workers completed with a queue of two uevents, and
\* the open of the marker failed
C34_Witness ==
    /\ ColdBootCompleted
    /\ ~ColdBootCannotComplete
    /\ Cardinality(DOMAIN workers) = 2
    /\ Len(uevent_queue_) = 2
    /\ open_result = "failed"

(***************************************************************************)
(* C35.  For every record the reader accepts, the one with the empty       *)
(* prefix included, and for both values of dir, fs_config_cmp reads the    *)
(* prefix at indices 0..len only: never the byte in front of the buffer.   *)
(***************************************************************************)
\* the indices of a at which strncmp(a, b, n) reads: up to the first
\* difference or NUL, n - 1 at most
StrncmpReads(a, b, n) ==
    { i \in 0..Min(n - 1, Len(a)) :
        \A j \in 0..(i - 1) : CharAt(a, j) = CharAt(b, j) /\ CharAt(a, j) # 0 }

\* the indices of prefix that fs_config_cmp reads; len - 1 is -1 when len
\* is 0, and n is then SIZE_MAX for strncmp
PrefixReads(dir, prefix, len, path, plen, stray) ==
    IF dir
    THEN IF plen < len THEN {} ELSE StrncmpReads(prefix, path, len)
    ELSE {len - 1} \cup
         (IF (IF len = 0 THEN stray ELSE prefix[len]) = 42
          THEN IF len = 0 THEN StrncmpReads(prefix, path, Len(prefix) + 1)
                          ELSE StrncmpReads(prefix, path, len - 1)
          ELSE IF plen # len THEN {} ELSE StrncmpReads(prefix, path, len))

\* the rules of the packed records that the call in progress compares with
\* its path: those read, up to the first that matches
RECURSIVE ComparedRules(_, _)
ComparedRules(rules, k) ==
    IF k > Len(rules) THEN {}
    ELSE IF fs_config_cmp(fs_in.dir, rules[k].prefix, Len(rules[k].prefix),
                          CallPath, Len(CallPath), fs_in.stray)
    THEN {rules[k]}
    ELSE {rules[k]} \cup ComparedRules(rules, k + 1)

C35_CmpReadsWithinPrefix ==
    /\ fs_op = "fs_config_cmp" =>
          PrefixReads(fs_in.dir, fs_in.prefix, Len(fs_in.prefix),
                      fs_in.path, Len(fs_in.path), fs_in.stray)
              \subseteq 0..Len(fs_in.prefix)
    /\ fs_op = "fs_config" =>
          \A r \in ComparedRules(RulesUpTo(fs_in.files, 4), 1) :
              PrefixReads(fs_in.dir, r.prefix, Len(r.prefix),
                          CallPath, Len(CallPath), fs_in.stray)
                  \subseteq 0..Len(r.prefix)

(***************************************************************************)
(* C36: opening a packed rule file with target_out_path set tries the      *)
(* prefixed name first and falls back to the absolute name whenever the    *)
(* prefixed file cannot be opened; the prefixed name is the same for the   *)
(* target_out_path values P, P/, P/system and P/system/; a file that opens *)
(* under neither name is absent, and fs_config goes on with the next file. *)
(***************************************************************************)
\* target_out_path is set
TargetOutPathSet == ~fs_in.target_out_path.null /\ fs_in.target_out_path.str # << >>

\* P, P + "/", P + "/system", P + "/system/"
SameTarget(P) ==
    { P, P \o << 47 >>, P \o SystemDir, P \o SystemDir \o << 47 >> }

\* the prefixed name is tried first, the absolute one only after it failed
PrefixedFirstThenAbsolute ==
    LET absolute == conf_name(fs_in.which, fs_in.dir) IN
    (TargetOutPathSet /\ fs_in.asprintf_ok) =>
        IF fs_out.tried[1] \in fs_in.openable
        THEN fs_out.opened /\ fs_out.name = fs_out.tried[1]
        ELSE /\ fs_out.tried = << fs_out.tried[1], absolute >>
             /\ fs_out.opened = (absolute \in fs_in.openable)
             /\ fs_out.opened => fs_out.name = absolute

\* the four spellings of P give the name P + conf[which][dir]
SameNameForSameTarget ==
    (fs_in.asprintf_ok /\ ~fs_in.target_out_path.null
        /\ fs_in.target_out_path.str \in SameTarget(OutDir)) =>
        fs_out.tried[1] = OutDir \o conf_name(fs_in.which, fs_in.dir)

\* no name opens: fd < 0
AbsentWhenNeitherOpens ==
    fs_out.opened = (\E k \in 1..Len(fs_out.tried) : fs_out.tried[k] \in fs_in.openable)

\* a file that does not open counts as a file without records
AbsentAsEmpty(files) ==
    [which \in DOMAIN files |->
        IF files[which].exists THEN files[which] ELSE [exists |-> TRUE, bytes |-> << >>]]

C36_PrefixedThenAbsoluteElseAbsent ==
    /\ fs_op = "fs_config_open" =>
          /\ PrefixedFirstThenAbsolute
          /\ SameNameForSameTarget
          /\ AbsentWhenNeitherOpens
    /\ fs_op = "fs_config" =>
          fs_out = fs_config(fs_in.path, fs_in.dir, AbsentAsEmpty(OpenFiles(fs_in.files)),
                             fs_in.mode, fs_in.stray)

=============================================================================
